---- MODULE Spec2Model ----
(***************************************************************************)
(* Model of the JJUTV video extraction gateway (src/server.py and          *)
(* src/backend/server.py): the resolution cache, the format selection of   *)
(* extract_video, and the SQLite catalog of groups and member videos.      *)
(*                                                                         *)
(* Time is counted in half hours: one step of Tick is thirty minutes, so   *)
(* cache_timeout (timedelta(hours=1)) is 2.                                *)
(***************************************************************************)
EXTENDS Integers, Sequences, FiniteSets, Bags, TLC

VARIABLES
    now,            \* datetime.now(), in half hours
    video_cache,    \* the dict video_cache: key -> [data, time]
    pc,             \* per request thread: what the handler is blocked on
    last,           \* the response most recently returned to a client
    channels,       \* table channels of src/server.py: its rows in rowid order
    groups,         \* table groups of src/backend/server.py: the ids present
    videos,         \* table videos of src/backend/server.py: a bag of rows
    next_group,     \* how many group ids uuid4 has handed out
    adding,         \* the add_videos_to_group requests in flight, a bag
    result,         \* the response of the most recent catalog request
    sel_info,       \* a resolver result handed to the format selection
    sel_resp,       \* what extract_video answers for sel_info
    video_groups,   \* table video_groups of src/server.py: id -> thumbnail
    group_videos,   \* table group_videos of src/server.py: a set of rows
    sqlite_sequence,\* the AUTOINCREMENT counters of src/server.py
    inserting,      \* the add_video_to_group requests in flight, a bag
    schedules,      \* table schedules of the backend: id -> row
    next_schedule,  \* how many schedule ids uuid4 has handed out
    blocked,        \* tables blocked_videos and blocked_channels: id -> reason
    blocking,       \* the block_video / block_channel requests in flight
    reply           \* the response of the most recent of these requests

gateway == <<now, video_cache, pc, last, channels>>
catalog == <<groups, videos, next_group, adding, result>>
selector == <<sel_info, sel_resp>>
library == <<video_groups, group_videos, sqlite_sequence, inserting>>
admin == <<schedules, next_schedule, blocked, blocking>>
store == <<library, admin, reply>>

vars == <<now, video_cache, pc, last, channels, groups, videos, next_group,
          adding, result, sel_info, sel_resp, video_groups, group_videos,
          sqlite_sequence, inserting, schedules, next_schedule, blocked,
          blocking, reply>>

\* Python's None, also standing for a key that a dict does not carry.
None == "None"

\* f'https://i.ytimg.com/vi/{video_id}/hqdefault.jpg'
hqdefault(video_id) == "https://i.ytimg.com/vi/" \o video_id \o "/hqdefault.jpg"

\* dict.get(key, default) for a key that is missing (None) or carries text
get(value, default) == IF value = None THEN default ELSE value

----------------------------------------------------------------------------
(* Bounds of the model.                                                    *)

MaxTime == 2            \* the clock stops after this many half hours
MaxFormats == 3         \* longest candidate list handed to the selector
MaxCachedFormats == 1   \* longest candidate list in the cache specification

MaxEntries == 2         \* longest entry list a channel lookup returns
MaxGroups == 2          \* groups ever created
MaxBatch == 2           \* longest id list of one catalog request
MaxRows == 3            \* rows ever inserted into group_videos
MaxSchedules == 2       \* schedules ever created with their optional fields
MaxSerialRows == 3      \* rows ever inserted into group_videos, one request
                        \* after the other
MaxKeyed == 1           \* groups and schedules ever created next to the
                        \* other keyed tables

Threads == {1, 2}
VideoIds == {"a1", "b2", "c3"}

\* the rows init_db inserts into an empty channels table
default_channels ==
    <<[channel_id |-> "UC5PYHgAzJ1jQzoyDQjOA1RA",
       channel_name |-> "Blippi - Educational Videos for Kids",
       description |-> "Main Blippi channel", thumbnail |-> ""],
      [channel_id |-> "UCqwjm_R3H1F6i8KBYmPh82A",
       channel_name |-> "Blippi Toys",
       description |-> "Blippi Toys channel", thumbnail |-> ""]>>

\* what ydl.extract_info returns for a channel in flat mode
ChannelInfos ==
    [has_entries : {TRUE},
     entries : UNION {[1..k -> {None, "a1"}] : k \in 0..MaxEntries}]
    \cup [has_entries : {FALSE}, entries : {<<>>}]


----------------------------------------------------------------------------
(* Resolver results (what ydl.extract_info returns for a single video).    *)

FormatsOver(urls) ==
    [acodec : {"none", "mp4a"}, vcodec : {"none", "avc1"}, url : {None} \cup urls]

FormatLists(n, urls) == UNION {[1..k -> FormatsOver(urls)] : k \in 0..n}

\* info.get('url') is None, '' or a URL; 'formats' may be missing from info.
InfosOver(n, urls) ==
    [url : {None, "", "direct"}, has_formats : {TRUE}, formats : FormatLists(n, urls)]
    \cup [url : {None, "", "direct"}, has_formats : {FALSE}, formats : {<<>>}]

\* the resolver results of the selector specification
Infos == InfosOver(MaxFormats, {"fa", "fb"})

\* the resolver results of the cache specification
CachedInfos == InfosOver(MaxCachedFormats, {"fa"})

\* Python truthiness of an optional string: None and '' are falsy.
Truthy(s) == s # None /\ s # ""

\* f.get('acodec') != 'none' and f.get('vcodec') != 'none'
HasBoth(f) == f.acodec # "none" /\ f.vcodec # "none"

NoData == [video_id |-> None, url |-> None, extracted_at |-> -1]

\* response_data of extract_video
response_data(video_id, url, t) ==
    [video_id |-> video_id, url |-> url, extracted_at |-> t]

\* format_with_audio taking the last match instead of the first
format_with_audio_last(formats) ==
    LET hits == {i \in 1..Len(formats) : HasBoth(formats[i])}
    IN  IF hits = {} THEN 0
        ELSE CHOOSE i \in hits : \A j \in hits : i >= j

\* next((f for f in formats if ...), None): index of the first match, 0 for None
format_with_audio(formats) ==
    LET hits == {i \in 1..Len(formats) : HasBoth(formats[i])}
    IN  IF hits = {} THEN 0
        ELSE CHOOSE i \in hits : \A j \in hits : i <= j

\* video_url falling back to formats[0] instead of formats[-1]
video_url_first(info) ==
    IF ~Truthy(info.url) /\ info.has_formats
    THEN LET i == format_with_audio(info.formats)
         IN  IF i # 0 THEN info.formats[i].url
             ELSE IF Len(info.formats) > 0
                  THEN info.formats[1].url
                  ELSE info.url
    ELSE info.url

\* The value of video_url when extract_video reaches "if not video_url".
video_url(info) ==
    IF ~Truthy(info.url) /\ info.has_formats
    THEN LET i == format_with_audio(info.formats)
         IN  IF i # 0 THEN info.formats[i].url
             ELSE IF Len(info.formats) > 0
                  THEN info.formats[Len(info.formats)].url
                  ELSE info.url
    ELSE info.url

\* extract_result testing "video_url is None" instead of "not video_url"
extract_result_none_only(video_id, info, t) ==
    IF video_url(info) = None
    THEN [status |-> 500, error |-> "Could not extract video URL", data |-> NoData]
    ELSE [status |-> 200, error |-> None,
          data |-> response_data(video_id, video_url(info), t)]

\* What extract_video answers once the resolver has returned info.
extract_result(video_id, info, t) ==
    IF ~Truthy(video_url(info))
    THEN [status |-> 500, error |-> "Could not extract video URL", data |-> NoData]
    ELSE [status |-> 200, error |-> None,
          data |-> response_data(video_id, video_url(info), t)]

----------------------------------------------------------------------------
(* The resolution cache.                                                   *)

cache_timeout == 2

\* f"video_{video_id}"
cache_key(video_id) == "video_" \o video_id

\* cache_hit with <= in place of <
cache_hit_inclusive(key) ==
    /\ key \in DOMAIN video_cache
    /\ now - video_cache[key].time <= cache_timeout

\* cache_key in video_cache and datetime.now() - cache_time < cache_timeout
cache_hit(key) ==
    /\ key \in DOMAIN video_cache
    /\ now - video_cache[key].time < cache_timeout

\* a cache that keeps an entry less than an hour old: the first writer wins
cache_put_keep(key, data) ==
    IF cache_hit(key) THEN video_cache
    ELSE [k \in DOMAIN video_cache \cup {key} |->
             IF k = key THEN [data |-> data, time |-> now]
             ELSE video_cache[k]]

\* video_cache[cache_key] = (response_data, datetime.now())
cache_put(key, data) ==
    [k \in DOMAIN video_cache \cup {key} |->
        IF k = key THEN [data |-> data, time |-> now] ELSE video_cache[k]]

Idle == [at |-> "idle"]

NoResponse ==
    [op |-> "none", status |-> 0, cached |-> FALSE,
     error |-> None, data |-> NoData, key |-> None, cleared |-> -1]

\* a response, with the cache key of the request it answers
Respond(op, t, status, cached, error, data, key) ==
    [op |-> op, status |-> status, cached |-> cached,
     error |-> error, data |-> data, key |-> key, cleared |-> -1]

\* extract_video storing the entry again, with the time of the hit, when it
\* answers from the cache
extract_video_refresh(t, video_id) ==
    /\ pc[t].at = "idle"
    /\ IF ~Truthy(video_id)
       THEN /\ last' = Respond("extract_video", t, 400, FALSE,
                               "video_id is required", NoData, None)
            /\ UNCHANGED <<pc, video_cache>>
       ELSE IF cache_hit(cache_key(video_id))
       THEN /\ last' = Respond("extract_video", t, 200, TRUE, None,
                               video_cache[cache_key(video_id)].data,
                               cache_key(video_id))
            /\ video_cache' = cache_put(cache_key(video_id),
                                        video_cache[cache_key(video_id)].data)
            /\ UNCHANGED pc
       ELSE /\ pc' = [pc EXCEPT ![t] = [at |-> "extract_info",
                                        video_id |-> video_id]]
            /\ UNCHANGED <<last, video_cache>>
    /\ UNCHANGED <<now, channels, catalog, selector, store>>

\* extract_video up to the blocking call ydl.extract_info
extract_video(t, video_id) ==
    /\ pc[t].at = "idle"
    /\ IF ~Truthy(video_id)
       THEN /\ last' = Respond("extract_video", t, 400, FALSE,
                               "video_id is required", NoData, None)
            /\ UNCHANGED pc
       ELSE IF cache_hit(cache_key(video_id))
       THEN /\ last' = Respond("extract_video", t, 200, TRUE, None,
                               video_cache[cache_key(video_id)].data,
                               cache_key(video_id))
            /\ UNCHANGED pc
       ELSE /\ pc' = [pc EXCEPT ![t] = [at |-> "extract_info", video_id |-> video_id]]
            /\ UNCHANGED last
    /\ UNCHANGED <<now, video_cache, channels, catalog, selector, store>>

\* a resolver whose lookup never gives up
extract_video_no_timeout(t) ==
    /\ FALSE
    /\ UNCHANGED vars

\* ydl.extract_info raises: the handler's except clause answers 500
extract_video_raise(t) ==
    /\ pc[t].at = "extract_info"
    /\ pc' = [pc EXCEPT ![t] = Idle]
    /\ last' = Respond("extract_video", t, 500, FALSE, "upstream", NoData,
                       cache_key(pc[t].video_id))
    /\ UNCHANGED <<now, video_cache, channels, catalog, selector, store>>

\* extract_video_return writing the cache before it tests video_url
extract_video_return_caching(t, info) ==
    /\ pc[t].at = "extract_info"
    /\ pc' = [pc EXCEPT ![t] = Idle]
    /\ LET r == extract_result(pc[t].video_id, info, now)
       IN  /\ last' = Respond("extract_video", t, r.status, FALSE, r.error,
                              r.data, cache_key(pc[t].video_id))
           /\ video_cache' = cache_put(cache_key(pc[t].video_id), r.data)
    /\ UNCHANGED <<now, channels, catalog, selector, store>>

\* ydl.extract_info returns info: select the URL, cache and answer
extract_video_return(t, info) ==
    /\ pc[t].at = "extract_info"
    /\ pc' = [pc EXCEPT ![t] = Idle]
    /\ LET r == extract_result(pc[t].video_id, info, now)
       IN  /\ last' = Respond("extract_video", t, r.status, FALSE, r.error,
                              r.data, cache_key(pc[t].video_id))
           /\ video_cache' = IF r.status = 200
                             THEN cache_put(cache_key(pc[t].video_id), r.data)
                             ELSE video_cache
    /\ UNCHANGED <<now, channels, catalog, selector, store>>

\* clear_cache dropping only the entries that have expired
clear_cache_expired(t) ==
    /\ pc[t].at = "idle"
    /\ video_cache' = [k \in {j \in DOMAIN video_cache : cache_hit(j)}
                            |-> video_cache[k]]
    /\ last' = [Respond("clear_cache", t, 200, FALSE, None, NoData, None)
                    EXCEPT !.cleared = Cardinality(DOMAIN video_cache)
                                        - Cardinality(DOMAIN video_cache')]
    /\ UNCHANGED <<now, pc, channels, catalog, selector, store>>

\* clear_cache: len(video_cache), then video_cache.clear()
clear_cache(t) ==
    /\ pc[t].at = "idle"
    /\ video_cache' = <<>>
    /\ last' = [Respond("clear_cache", t, 200, FALSE, None, NoData, None)
                    EXCEPT !.cleared = Cardinality(DOMAIN video_cache)]
    /\ UNCHANGED <<now, pc, channels, catalog, selector, store>>

----------------------------------------------------------------------------
(* Channel listing (get_blippi_videos).                                    *)

\* request.args.get('channel'): absent, or the text of the parameter
NoChannel == [given |-> FALSE, text |-> ""]
Channel(text) == [given |-> TRUE, text |-> text]

\* the strings int() accepts, among those the model sends
IsInt(s) == s \in {"-1", "0", "1", "2", "3"}

\* int(s), for IsInt(s)
int(s) == CASE s = "-1" -> -1 [] s = "0" -> 0 [] s = "1" -> 1
            [] s = "2" -> 2 [] s = "3" -> 3

\* str(channel_index) inside the f-string
str(channel_index) == IF channel_index.given THEN channel_index.text ELSE "None"

\* f"blippi_channel_{max_results}_{channel_index}"
channel_cache_key(max_results, channel_index) ==
    "blippi_channel_" \o ToString(max_results) \o "_" \o str(channel_index)

Min(a, b) == IF a <= b THEN a ELSE b
Max(a, b) == IF a >= b THEN a ELSE b

\* seq[:n] of Python
Slice(seq, n) ==
    IF n >= 0 THEN SubSeq(seq, 1, Min(n, Len(seq)))
    ELSE SubSeq(seq, 1, Max(0, Len(seq) + n))

\* whether seq[i] of Python raises IndexError
IndexError(seq, i) == ~(-Len(seq) <= i /\ i < Len(seq))

\* seq[i] of Python, negative indices counting from the end
Item(seq, i) == IF i >= 0 THEN seq[i + 1] ELSE seq[Len(seq) + i + 1]

\* channel_videos without the slice [:max_results]
channel_videos_uncut(info, max_results) ==
    IF info.has_entries
    THEN SelectSeq(info.entries, LAMBDA id : Truthy(id))
    ELSE <<>>

\* the entries of one channel that carry an id, cut to max_results
channel_videos(info, max_results) ==
    IF info.has_entries
    THEN SelectSeq(Slice(info.entries, max_results), LAMBDA id : Truthy(id))
    ELSE <<>>

\* response_data of get_blippi_videos
listing_data(all_videos, max_results, t) ==
    [videos |-> Slice(all_videos, max_results),
     count |-> Len(Slice(all_videos, max_results)),
     fetched_at |-> t]

\* an end of get_blippi_videos that stores the response only when it has
\* videos
listing_finish_nonempty(t, key, all_videos, max_results) ==
    LET data == listing_data(all_videos, max_results, now)
    IN  /\ video_cache' = IF data.videos # <<>> THEN cache_put(key, data)
                          ELSE video_cache
        /\ last' = Respond("get_blippi_videos", t, 200, FALSE, None, data, key)
        /\ pc' = [pc EXCEPT ![t] = Idle]

\* the end of get_blippi_videos: build the response, cache it, answer
listing_finish(t, key, all_videos, max_results) ==
    LET data == listing_data(all_videos, max_results, now)
    IN  /\ video_cache' = cache_put(key, data)
        /\ last' = Respond("get_blippi_videos", t, 200, FALSE, None, data, key)
        /\ pc' = [pc EXCEPT ![t] = Idle]

\* "SELECT channel_id FROM channels": db_channels
db_channels == [i \in 1..Len(channels) |-> channels[i].channel_id]

\* get_blippi_videos up to the first blocking call ydl.extract_info
get_blippi_videos(t, max_results_arg, channel_index) ==
    /\ pc[t].at = "idle"
    /\ IF ~IsInt(max_results_arg)
       THEN /\ last' = Respond("get_blippi_videos", t, 500, FALSE,
                               "ValueError", NoData, None)
            /\ UNCHANGED <<pc, video_cache>>
       ELSE LET max_results == int(max_results_arg)
                key == channel_cache_key(max_results, channel_index)
            IN  IF cache_hit(key)
                THEN /\ last' = Respond("get_blippi_videos", t, 200, TRUE, None,
                                        video_cache[key].data, key)
                     /\ UNCHANGED <<pc, video_cache>>
                ELSE IF channel_index.given /\ ~IsInt(channel_index.text)
                THEN /\ last' = Respond("get_blippi_videos", t, 500, FALSE,
                                        "ValueError", NoData, key)
                     /\ UNCHANGED <<pc, video_cache>>
                ELSE IF channel_index.given
                        /\ IndexError(db_channels, int(channel_index.text))
                THEN /\ last' = Respond("get_blippi_videos", t, 500, FALSE,
                                        "IndexError", NoData, key)
                     /\ UNCHANGED <<pc, video_cache>>
                ELSE LET todo == IF channel_index.given
                                 THEN <<Item(db_channels, int(channel_index.text))>>
                                 ELSE db_channels
                     IN  IF todo = <<>>
                         THEN listing_finish(t, key, <<>>, max_results)
                         ELSE /\ pc' = [pc EXCEPT ![t] =
                                           [at |-> "fetch_channel", key |-> key,
                                            max_results |-> max_results,
                                            todo |-> todo, all_videos |-> <<>>]]
                              /\ UNCHANGED <<last, video_cache>>
    /\ UNCHANGED <<now, channels, catalog, selector, store>>

\* fetch_channel without the try around the lookup: the exception reaches
\* the except clause of the handler, which answers 500
fetch_channel_abort(t, raised, info) ==
    /\ pc[t].at = "fetch_channel"
    /\ IF raised
       THEN /\ pc' = [pc EXCEPT ![t] = Idle]
            /\ last' = Respond("get_blippi_videos", t, 500, FALSE, "upstream",
                               NoData, pc[t].key)
            /\ UNCHANGED video_cache
       ELSE LET all_videos ==
                    pc[t].all_videos \o channel_videos(info, pc[t].max_results)
            IN  IF Len(pc[t].todo) > 1
                THEN /\ pc' = [pc EXCEPT ![t].todo = Tail(@),
                                         ![t].all_videos = all_videos]
                     /\ UNCHANGED <<last, video_cache>>
                ELSE listing_finish(t, pc[t].key, all_videos,
                                    pc[t].max_results)
    /\ UNCHANGED <<now, channels, catalog, selector, store>>

\* one turn of the loop over channels_to_fetch: extract_info returned info
\* (raised = FALSE) or raised, which the loop logs and skips
fetch_channel(t, raised, info) ==
    /\ pc[t].at = "fetch_channel"
    /\ LET got == IF raised THEN <<>>
                  ELSE channel_videos(info, pc[t].max_results)
           all_videos == pc[t].all_videos \o got
       IN  IF Len(pc[t].todo) > 1
           THEN /\ pc' = [pc EXCEPT ![t].todo = Tail(@),
                                    ![t].all_videos = all_videos]
                /\ UNCHANGED <<last, video_cache>>
           ELSE listing_finish(t, pc[t].key, all_videos, pc[t].max_results)
    /\ UNCHANGED <<now, channels, catalog, selector, store>>

\* extract_playlist up to the blocking call ydl.extract_info; nothing of it
\* is cached
extract_playlist(t, playlist_id, max_results_arg) ==
    /\ pc[t].at = "idle"
    /\ IF ~IsInt(max_results_arg)
       THEN /\ last' = Respond("extract_playlist", t, 500, FALSE,
                               "ValueError", NoData, None)
            /\ UNCHANGED pc
       ELSE IF ~Truthy(playlist_id)
       THEN /\ last' = Respond("extract_playlist", t, 400, FALSE,
                               "playlist_id is required", NoData, None)
            /\ UNCHANGED pc
       ELSE /\ pc' = [pc EXCEPT ![t] = [at |-> "extract_playlist",
                                        max_results |-> int(max_results_arg)]]
            /\ UNCHANGED last
    /\ UNCHANGED <<now, video_cache, channels, catalog, selector, store>>

\* ydl.extract_info returns info: the entries up to max_results that carry
\* an id, and their number
extract_playlist_return(t, info) ==
    /\ pc[t].at = "extract_playlist"
    /\ pc' = [pc EXCEPT ![t] = Idle]
    /\ LET found == channel_videos(info, pc[t].max_results)
       IN  last' = Respond("extract_playlist", t, 200, FALSE, None,
                           [videos |-> found, count |-> Len(found),
                            fetched_at |-> now], None)
    /\ UNCHANGED <<now, video_cache, channels, catalog, selector, store>>

\* ydl.extract_info raises: the except clause answers 500
extract_playlist_raise(t) ==
    /\ pc[t].at = "extract_playlist"
    /\ pc' = [pc EXCEPT ![t] = Idle]
    /\ last' = Respond("extract_playlist", t, 500, FALSE, "upstream", NoData,
                       None)
    /\ UNCHANGED <<now, video_cache, channels, catalog, selector, store>>

\* extract_video of src/simple-server.py up to subprocess.run, which runs
\* yt-dlp with timeout=30; this server keeps no cache
simple_extract_video(t, video_id) ==
    /\ pc[t].at = "idle"
    /\ IF ~Truthy(video_id)
       THEN /\ last' = Respond("simple_extract_video", t, 400, FALSE,
                               "No video_id provided", NoData, None)
            /\ UNCHANGED pc
       ELSE /\ pc' = [pc EXCEPT ![t] = [at |-> "subprocess",
                                        video_id |-> video_id]]
            /\ UNCHANGED last
    /\ UNCHANGED <<now, video_cache, channels, catalog, selector, store>>

\* subprocess.run returned: the first line of stdout is the URL
simple_run_returns(t, returncode, stdout) ==
    /\ pc[t].at = "subprocess"
    /\ pc' = [pc EXCEPT ![t] = Idle]
    /\ last' = IF returncode = 0 /\ Truthy(stdout)
               THEN Respond("simple_extract_video", t, 200, FALSE, None,
                            response_data(pc[t].video_id, stdout, -1), None)
               ELSE Respond("simple_extract_video", t, 500, FALSE,
                            "Could not extract video", NoData, None)
    /\ UNCHANGED <<now, video_cache, channels, catalog, selector, store>>

\* subprocess.run raised TimeoutExpired after 30 seconds: the except clause
\* answers 500
simple_run_timeout(t) ==
    /\ pc[t].at = "subprocess"
    /\ pc' = [pc EXCEPT ![t] = Idle]
    /\ last' = Respond("simple_extract_video", t, 500, FALSE,
                       "TimeoutExpired", NoData, None)
    /\ UNCHANGED <<now, video_cache, channels, catalog, selector, store>>

\* a clock whose tick sweeps the entries that have expired by then
Tick_sweeping ==
    /\ now < MaxTime
    /\ now' = now + 1
    /\ video_cache' =
           [k \in {j \in DOMAIN video_cache :
                      now + 1 - video_cache[j].time < cache_timeout}
               |-> video_cache[k]]
    /\ UNCHANGED <<pc, last, channels, catalog, selector, store>>

Tick ==
    /\ now < MaxTime
    /\ now' = now + 1
    /\ UNCHANGED <<video_cache, pc, last, channels, catalog, selector, store>>

----------------------------------------------------------------------------
(* The catalog of src/backend/server.py: tables groups and videos.         *)

\* sqlite3.connect leaves PRAGMA foreign_keys at SQLite's default, off, and
\* no handler turns it on: FOREIGN KEY clauses are parsed and not enforced.
foreign_keys == FALSE

\* the elements of a sequence
Range(seq) == {seq[i] : i \in 1..Len(seq)}

\* video_id.strip(), for the ids the model sends
strip(video_id) ==
    CASE video_id = " a1" -> "a1"
      [] video_id = " "   -> ""
      [] OTHER            -> video_id

\* the video_id column of the rows of group_id
group_members(group_id) ==
    {r.video_id : r \in {q \in BagToSet(videos) : q.group_id = group_id}}

\* 'SELECT id, name, description, created_at FROM groups' has no ORDER BY:
\* SQLite walks the table by rowid, and a row gets the rowid after the
\* largest one in use, so the rows come oldest first. The ids of the model
\* count the groups in the order of their creation.
RECURSIVE table_order(_)
table_order(ids) ==
    IF ids = {} THEN <<>>
    ELSE LET first == CHOOSE g \in ids : \A h \in ids : g <= h
         IN  <<first>> \o table_order(ids \ {first})

\* load_groups of the backend: every group in the order of the SELECT, each
\* with the rows of videos that carry its id
load_groups ==
    [i \in 1..Cardinality(groups) |->
        [id |-> table_order(groups)[i],
         videos |-> {r \in BagToSet(videos) :
                        r.group_id = table_order(groups)[i]}]]

\* a table videos without its UNIQUE(group_id, video_id)
unique_violation_never(rows, group_id, video_id) == FALSE

\* UNIQUE(group_id, video_id): would inserting this row raise IntegrityError
unique_violation(rows, group_id, video_id) ==
    \E r \in BagToSet(rows) : r.group_id = group_id /\ r.video_id = video_id

\* what ydl.extract_info hands fetch_video_info for one video: it raised, or
\* an info dict, which may lack a key ('title' here)
LookupInfos ==
    {[raised |-> TRUE, title |-> None, thumbnail |-> None, uploader |-> None],
     [raised |-> FALSE, title |-> None, thumbnail |-> "maxres.jpg",
      uploader |-> "Uploader"],
     [raised |-> FALSE, title |-> "Title", thumbnail |-> "maxres.jpg",
      uploader |-> "Uploader"]}

\* a fetch_video_info that lets the exception of the lookup through as an
\* empty record
fetch_video_info_bare(video_id, info) ==
    IF info.raised
    THEN [video_id |-> video_id, title |-> "", thumbnail |-> "", uploader |-> ""]
    ELSE [video_id |-> video_id,
          title |-> get(info.title, "Unknown Title"),
          thumbnail |-> get(info.thumbnail, hqdefault(video_id)),
          uploader |-> get(info.uploader, "Unknown")]

\* fetch_video_info: the record of a video, the placeholder when the lookup
\* raised ('duration' is left out)
fetch_video_info(video_id, info) ==
    IF info.raised
    THEN [video_id |-> video_id, title |-> "Unknown Title",
          thumbnail |-> hqdefault(video_id), uploader |-> "Unknown"]
    ELSE [video_id |-> video_id,
          title |-> get(info.title, "Unknown Title"),
          thumbnail |-> get(info.thumbnail, hqdefault(video_id)),
          uploader |-> get(info.uploader, "Unknown")]

\* the record a playlist or channel entry gives; the entries of the model
\* carry an 'id' and nothing else
entry_video(vid_id) ==
    [video_id |-> vid_id, title |-> get(None, "Unknown Title"),
     thumbnail |-> get(None, hqdefault(vid_id)),
     uploader |-> get(None, "Unknown")]

\* fetch_video_info for each id of a list; lookup gives, per id, what the
\* resolver does for it
enrich(ids, lookup) ==
    [i \in 1..Len(ids) |-> fetch_video_info(ids[i], lookup[ids[i]])]

entry_videos(ids) == [i \in 1..Len(ids) |-> entry_video(ids[i])]

\* the ids of a list of video records
ids_of(batch) == {batch[i].video_id : i \in 1..Len(batch)}

\* The loop of INSERT INTO videos over a batch, inside one transaction:
\* the rows after the batch, ok = FALSE when an INSERT raised.
RECURSIVE insert_videos(_, _, _)
insert_videos(rows, group_id, batch) ==
    IF batch = <<>> THEN [ok |-> TRUE, rows |-> rows]
    ELSE IF unique_violation(rows, group_id, Head(batch).video_id)
    THEN [ok |-> FALSE, rows |-> rows]
    ELSE insert_videos(rows (+) SetToBag({[group_id |-> group_id,
                                            video_id |-> Head(batch).video_id,
                                            title |-> Head(batch).title,
                                            thumbnail |-> Head(batch).thumbnail,
                                            uploader |-> Head(batch).uploader]}),
                       group_id, Tail(batch))

\* a connection that commits whatever ran before the exception
transaction_partial(rows, attempt) == attempt.rows

\* "with get_db() as conn: ... conn.commit()": the rows after the block. An
\* exception leaves the block before conn.commit(), and conn.close() drops
\* what the transaction had written.
transaction(rows, attempt) == IF attempt.ok THEN attempt.rows ELSE rows

\* "for video_id in video_ids: video_id = video_id.strip(); if video_id: ..."
RECURSIVE stripped(_)
stripped(video_ids) ==
    IF video_ids = <<>> THEN <<>>
    ELSE IF Truthy(strip(Head(video_ids)))
    THEN <<strip(Head(video_ids))>> \o stripped(Tail(video_ids))
    ELSE stripped(Tail(video_ids))

\* "for entry in info['entries']: vid_id = entry.get('id'); if vid_id: ..."
entry_ids(entries) == SelectSeq(entries, LAMBDA id : Truthy(id))

\* new_videos without "existing_ids.add(video_id)"
RECURSIVE new_videos_no_add(_, _)
new_videos_no_add(ids, existing_ids) ==
    IF ids = <<>> THEN <<>>
    ELSE IF Head(ids) \notin existing_ids
    THEN <<Head(ids)>> \o new_videos_no_add(Tail(ids), existing_ids)
    ELSE new_videos_no_add(Tail(ids), existing_ids)

\* The de-duplicating loops of add_videos_to_group: the ids of new_videos,
\* each candidate tested against existing_ids and then added to it.
RECURSIVE new_videos(_, _)
new_videos(ids, existing_ids) ==
    IF ids = <<>> THEN <<>>
    ELSE IF Head(ids) \notin existing_ids
    THEN <<Head(ids)>> \o new_videos(Tail(ids), existing_ids \cup {Head(ids)})
    ELSE new_videos(Tail(ids), existing_ids)

\* one request, as a bag
One(request) == SetToBag({request})

\* a request thread is free to take another add_videos_to_group
ThreadFree == BagCardinality(adding) < Cardinality(Threads)

NoResult ==
    [op |-> "none", status |-> 0, error |-> None, group_id |-> 0,
     added_count |-> -1, requested |-> {}]

Result(op, status, error, group_id) ==
    [op |-> op, status |-> status, error |-> error, group_id |-> group_id,
     added_count |-> -1, requested |-> {}]

\* data.get('max_results', 50)
default_max_results == 50

\* create_group of the backend. mode is "video_ids" (ids is the list sent),
\* or "playlist_id" (ids is the entry list the resolver returned, unless it
\* raised). The group row and the video rows are one transaction.
backend_create_group(name, mode, raised, ids, lookup, max_results) ==
    /\ IF ~Truthy(name)
       THEN /\ result' = Result("create_group", 400, "Group name is required", 0)
            /\ UNCHANGED <<groups, videos, next_group>>
       ELSE IF mode = "playlist_id" /\ raised
       THEN /\ result' = Result("create_group", 500, "Failed to fetch playlist", 0)
            /\ UNCHANGED <<groups, videos, next_group>>
       ELSE LET group_id == next_group + 1
                drafts == IF mode = "playlist_id"
                          THEN entry_videos(entry_ids(Slice(ids, max_results)))
                          ELSE enrich(stripped(ids), lookup)
                saved == insert_videos(videos, group_id, drafts)
            IN  /\ videos' = transaction(videos, saved)
                /\ IF saved.ok
                   THEN /\ groups' = groups \cup {group_id}
                        /\ next_group' = group_id
                        /\ result' = Result("create_group", 200, None, group_id)
                   ELSE /\ result' = Result("create_group", 500,
                                            "Failed to save group", 0)
                        /\ UNCHANGED <<groups, next_group>>
    /\ UNCHANGED <<gateway, adding, selector, store>>

\* DELETE FROM videos WHERE ...: the rows outside the deleted set
delete_where(rows, deleted) ==
    [r \in BagToSet(rows) \ deleted |-> rows[r]]

\* delete_group of the backend
backend_delete_group(group_id) ==
    /\ IF group_id \notin groups
       THEN /\ result' = Result("delete_group", 404, "Group not found", group_id)
            /\ UNCHANGED <<groups, videos>>
       ELSE /\ groups' = groups \ {group_id}
            /\ videos' = IF foreign_keys
                         THEN delete_where(videos, {r \in BagToSet(videos) :
                                                 r.group_id = group_id})
                         ELSE videos
            /\ result' = Result("delete_group", 200, None, group_id)
    /\ UNCHANGED <<gateway, next_group, adding, selector, store>>

\* add_videos_to_group up to its last resolver call. The group check and
\* the read of existing_ids use a connection that is closed before any
\* lookup. With video_ids the loop over the ids then builds new_videos from
\* that snapshot (fetch_video_info never raises), and the request goes on
\* with new_videos and the set of ids it was sent; with playlist_id the
\* handler waits for ydl.extract_info with existing_ids.
add_videos_to_group(group_id, mode, video_ids, lookup) ==
    /\ ThreadFree
    /\ IF group_id \notin groups
       THEN /\ result' = Result("add_videos_to_group", 404, "Group not found",
                                group_id)
            /\ UNCHANGED adding
       ELSE IF mode = "video_ids" /\ video_ids = <<>>
       THEN /\ result' = Result("add_videos_to_group", 400,
                                "video_ids, playlist_id, or channel_id is required",
                                group_id)
            /\ UNCHANGED adding
       ELSE /\ adding' = adding (+) One(
                            IF mode = "video_ids"
                            THEN [group_id |-> group_id, mode |-> mode,
                                  requested |-> Range(stripped(video_ids)),
                                  new_videos |->
                                      enrich(new_videos(stripped(video_ids),
                                                        group_members(group_id)),
                                             lookup)]
                            ELSE [group_id |-> group_id, mode |-> mode,
                                  existing_ids |-> group_members(group_id)])
            /\ UNCHANGED result
    /\ UNCHANGED <<gateway, groups, videos, next_group, selector, store>>

\* add_videos_to_group from there, for the request a in flight: with
\* playlist_id the resolver raised, or returned entries, which are filtered;
\* then the inserts of new_videos in a transaction of their own, and the
\* answer.
add_videos_save(a, raised, entries) ==
    /\ BagIn(a, adding)
    /\ adding' = adding (-) One(a)
    /\ IF a.mode = "playlist_id" /\ raised
       THEN /\ result' = Result("add_videos_to_group", 500,
                                "Failed to fetch playlist", a.group_id)
            /\ UNCHANGED videos
       ELSE LET fresh == IF a.mode = "playlist_id"
                         THEN entry_videos(new_videos(entry_ids(entries),
                                                      a.existing_ids))
                         ELSE a.new_videos
                saved == insert_videos(videos, a.group_id, fresh)
            IN  /\ videos' = transaction(videos, saved)
                /\ result' =
                       IF saved.ok
                       THEN [Result("add_videos_to_group", 200, None,
                                    a.group_id)
                                EXCEPT !.added_count = Len(fresh),
                                       !.requested =
                                          IF a.mode = "playlist_id"
                                          THEN Range(entry_ids(entries))
                                          ELSE a.requested]
                       ELSE Result("add_videos_to_group", 500,
                                   "Failed to save changes", a.group_id)
    /\ UNCHANGED <<gateway, groups, next_group, selector, store>>

\* delete_video_from_group of the backend
backend_delete_video_from_group(group_id, video_id) ==
    /\ IF video_id \notin group_members(group_id)
       THEN /\ result' = Result("delete_video_from_group", 404,
                                "Video not found in group", group_id)
            /\ UNCHANGED videos
       ELSE /\ videos' = delete_where(videos, {r \in BagToSet(videos) :
                            r.group_id = group_id /\ r.video_id = video_id})
            /\ result' = Result("delete_video_from_group", 200, None, group_id)
    /\ UNCHANGED <<gateway, groups, next_group, adding, selector, store>>

----------------------------------------------------------------------------
(* The catalog of src/server.py: tables video_groups and group_videos.     *)
(* Every handler opens a connection of its own with sqlite3.connect, so    *)
(* foreign keys are not enforced here either, and a SELECT runs outside    *)
(* any transaction: what a handler read may be stale when it writes.       *)

NoReply ==
    [op |-> "none", status |-> 0, error |-> None, id |-> 0, key |-> None]

\* a response, with the integer id the request named or created
Reply(op, status, error, id) ==
    [op |-> op, status |-> status, error |-> error, id |-> id, key |-> None]

\* a response, with the text key the request named
KeyReply(op, status, error, key) ==
    [op |-> op, status |-> status, error |-> error, id |-> 0, key |-> key]

\* the rows of group_videos with this group_id
rows_of(group_id) == {r \in group_videos : r.group_id = group_id}

\* the largest position of a non-empty set of rows
top(rows) == CHOOSE p \in {r.position : r \in rows} :
                 \A r \in rows : r.position <= p

\* a MAX(position) that takes an empty group for one with a row at 1
max_position_never_null(rows) ==
    IF rows = {} THEN [null |-> FALSE, value |-> 1]
    ELSE [null |-> FALSE, value |-> top(rows)]

\* "SELECT MAX(position) FROM group_videos WHERE group_id = ?": NULL for a
\* group without rows
max_position(rows) ==
    IF rows = {} THEN [null |-> TRUE, value |-> 0]
    ELSE [null |-> FALSE, value |-> top(rows)]

\* "ORDER BY position ASC LIMIT 1": the rows that may come first; SQL leaves
\* the order of rows with equal positions open
first_rows(rows) ==
    {r \in rows : \A q \in rows : r.position <= q.position}

\* "UPDATE video_groups SET thumbnail = ? WHERE id = ?"
set_thumbnail(table, group_id, thumbnail) ==
    IF group_id \in DOMAIN table
    THEN [table EXCEPT ![group_id] = thumbnail]
    ELSE table

\* create_group of src/server.py
create_group(group_name) ==
    /\ IF ~Truthy(group_name)
       THEN /\ reply' = Reply("create_group", 400, "group_name is required", 0)
            /\ UNCHANGED <<video_groups, sqlite_sequence>>
       ELSE LET new_id == sqlite_sequence.video_groups + 1
            IN  /\ video_groups' = video_groups @@ (new_id :> "")
                /\ sqlite_sequence' =
                       [sqlite_sequence EXCEPT !.video_groups = new_id]
                /\ reply' = Reply("create_group", 201, None, new_id)
    /\ UNCHANGED <<gateway, catalog, selector, admin, group_videos, inserting>>

\* a request thread is free to take another add_video_to_group
InsertFree == BagCardinality(inserting) < Cardinality(Threads)

\* add_video_to_group up to "SELECT MAX(position)": the validation, the
\* group check and next_position, all read before the INSERT opens the
\* transaction
add_video_to_group(group_id, video_id, video_title, thumbnail_arg) ==
    /\ InsertFree
    /\ IF ~Truthy(video_id) \/ ~Truthy(video_title)
       THEN /\ reply' = Reply("add_video_to_group", 400,
                              "video_id and video_title are required", 0)
            /\ UNCHANGED inserting
       ELSE IF group_id \notin DOMAIN video_groups
       THEN /\ reply' = Reply("add_video_to_group", 404, "Group not found", 0)
            /\ UNCHANGED inserting
       ELSE LET max_pos == max_position(rows_of(group_id))
            IN  /\ inserting' = inserting (+) One(
                       [group_id |-> group_id, video_id |-> video_id,
                        video_thumbnail |-> get(thumbnail_arg, hqdefault(video_id)),
                        next_position |-> IF ~max_pos.null
                                          THEN max_pos.value + 1
                                          ELSE 1])
                /\ UNCHANGED reply
    /\ UNCHANGED <<gateway, catalog, selector, admin, video_groups,
                   group_videos, sqlite_sequence>>

\* add_video_to_group from the INSERT on, for the request a in flight:
\* the row, the group thumbnail when the row got position 1, the commit
add_video_insert(a) ==
    /\ BagIn(a, inserting)
    /\ inserting' = inserting (-) One(a)
    /\ IF \E r \in rows_of(a.group_id) : r.video_id = a.video_id
       THEN /\ reply' = Reply("add_video_to_group", 409,
                              "Video already exists in this group", 0)
            /\ UNCHANGED <<video_groups, group_videos, sqlite_sequence>>
       ELSE LET new_id == sqlite_sequence.group_videos + 1
            IN  /\ group_videos' = group_videos \cup
                       {[id |-> new_id, group_id |-> a.group_id,
                         video_id |-> a.video_id,
                         video_thumbnail |-> a.video_thumbnail,
                         position |-> a.next_position]}
                /\ video_groups' =
                       IF a.next_position = 1
                       THEN set_thumbnail(video_groups, a.group_id,
                                          a.video_thumbnail)
                       ELSE video_groups
                /\ sqlite_sequence' =
                       [sqlite_sequence EXCEPT !.group_videos = new_id]
                /\ reply' = Reply("add_video_to_group", 201, None, new_id)
    /\ UNCHANGED <<gateway, catalog, selector, admin>>

\* a delete_group that empties the cache as well
delete_group_invalidating(group_id) ==
    /\ IF group_id \in DOMAIN video_groups
       THEN /\ video_groups' =
                   [g \in DOMAIN video_groups \ {group_id} |-> video_groups[g]]
            /\ group_videos' = IF foreign_keys
                               THEN group_videos \ rows_of(group_id)
                               ELSE group_videos
            /\ reply' = Reply("delete_group", 200, None, group_id)
       ELSE /\ reply' = Reply("delete_group", 404, "Group not found", group_id)
            /\ UNCHANGED <<video_groups, group_videos>>
    /\ video_cache' = <<>>
    /\ UNCHANGED <<now, pc, last, channels, catalog, selector, admin,
                   sqlite_sequence, inserting>>

\* delete_group of src/server.py
delete_group(group_id) ==
    /\ IF group_id \in DOMAIN video_groups
       THEN /\ video_groups' =
                   [g \in DOMAIN video_groups \ {group_id} |-> video_groups[g]]
            /\ group_videos' = IF foreign_keys
                               THEN group_videos \ rows_of(group_id)
                               ELSE group_videos
            /\ reply' = Reply("delete_group", 200, None, group_id)
       ELSE /\ reply' = Reply("delete_group", 404, "Group not found", group_id)
            /\ UNCHANGED <<video_groups, group_videos>>
    /\ UNCHANGED <<gateway, catalog, selector, admin, sqlite_sequence, inserting>>

\* a delete_video_from_group that leaves the thumbnail of the group alone
delete_video_from_group_stale(group_id, video_id) ==
    LET deleted == {r \in rows_of(group_id) : r.id = video_id}
    IN  /\ group_videos' = group_videos \ deleted
        /\ reply' = IF deleted # {}
                    THEN Reply("delete_video_from_group", 200, None, video_id)
                    ELSE Reply("delete_video_from_group", 404,
                               "Video not found", video_id)
        /\ UNCHANGED <<gateway, catalog, selector, admin, sqlite_sequence,
                       inserting, video_groups>>

\* delete_video_from_group of src/server.py: the DELETE, the SELECT of the
\* first remaining row and the UPDATE of the thumbnail are one transaction,
\* and the UPDATE runs whether or not a row was deleted
delete_video_from_group(group_id, video_id) ==
    LET deleted == {r \in rows_of(group_id) : r.id = video_id}
        remaining == rows_of(group_id) \ deleted
    IN  /\ group_videos' = group_videos \ deleted
        /\ \E new_thumbnail \in
                 IF remaining = {} THEN {""}
                 ELSE {r.video_thumbnail : r \in first_rows(remaining)} :
              video_groups' = set_thumbnail(video_groups, group_id, new_thumbnail)
        /\ reply' = IF deleted # {}
                    THEN Reply("delete_video_from_group", 200, None, video_id)
                    ELSE Reply("delete_video_from_group", 404,
                               "Video not found", video_id)
        /\ UNCHANGED <<gateway, catalog, selector, admin, sqlite_sequence,
                       inserting>>

----------------------------------------------------------------------------
(* Keyed tables: channels of src/server.py; schedules, blocked_videos and   *)
(* blocked_channels of src/backend/server.py.                              *)

\* a table, kept as a function from its key, without the row of key
without(table, key) == [k \in DOMAIN table \ {key} |-> table[k]]

\* an init_db that puts back every default channel that is missing
init_db_reseeding(rows) ==
    rows \o SelectSeq(default_channels,
                      LAMBDA c : \A i \in 1..Len(rows) :
                                    rows[i].channel_id # c.channel_id)

\* init_db on the channels table: CREATE TABLE IF NOT EXISTS keeps a table
\* that exists, and the default rows go in when COUNT(*) is 0
init_db(rows) ==
    IF Len(rows) = 0 THEN default_channels ELSE rows

\* the server process starts again: the database file is kept and init_db
\* runs on it, the dict video_cache starts empty, and the requests that
\* were being served are gone
startup ==
    /\ channels' = init_db(channels)
    /\ video_cache' = <<>>
    /\ pc' = [t \in Threads |-> Idle]
    /\ adding' = EmptyBag
    /\ inserting' = EmptyBag
    /\ blocking' = EmptyBag
    /\ UNCHANGED <<now, last, groups, videos, next_group, result, selector,
                   video_groups, group_videos, sqlite_sequence, schedules,
                   next_schedule, blocked, reply>>

\* an add_channel that replaces the row of a channel_id it finds
add_channel_replace(channel_id, channel_name, description, thumbnail) ==
    /\ IF ~Truthy(channel_id) \/ ~Truthy(channel_name)
       THEN /\ reply' = KeyReply("add_channel", 400, "channel_id and channel_name are required", channel_id)
            /\ UNCHANGED channels
       ELSE /\ channels' =
                   Append(SelectSeq(channels,
                                    LAMBDA c : c.channel_id # channel_id),
                          [channel_id |-> channel_id,
                           channel_name |-> channel_name,
                           description |-> get(description, ""),
                           thumbnail |-> get(thumbnail, "")])
            /\ reply' = KeyReply("add_channel", 201, None, channel_id)
    /\ UNCHANGED <<now, video_cache, pc, last, catalog, selector, library, admin>>

\* add_channel of src/server.py: channel_id is UNIQUE, so the INSERT of a
\* channel_id that is present raises IntegrityError
add_channel(channel_id, channel_name, description, thumbnail) ==
    /\ IF ~Truthy(channel_id) \/ ~Truthy(channel_name)
       THEN /\ reply' = KeyReply("add_channel", 400, "channel_id and channel_name are required", channel_id)
            /\ UNCHANGED channels
       ELSE IF channel_id \in Range(db_channels)
       THEN /\ reply' = KeyReply("add_channel", 409, "Channel already exists", channel_id)
            /\ UNCHANGED channels
       ELSE /\ channels' = Append(channels,
                                  [channel_id |-> channel_id,
                                   channel_name |-> channel_name,
                                   description |-> get(description, ""),
                                   thumbnail |-> get(thumbnail, "")])
            /\ reply' = KeyReply("add_channel", 201, None, channel_id)
    /\ UNCHANGED <<now, video_cache, pc, last, catalog, selector, library, admin>>

\* a delete_channel that takes the row of the channel out of
\* blocked_channels as well
delete_channel_cascade(channel_id) ==
    /\ channels' = SelectSeq(channels, LAMBDA c : c.channel_id # channel_id)
    /\ blocked' = [blocked EXCEPT !.channel = without(@, channel_id)]
    /\ reply' = IF channel_id \in Range(db_channels)
                THEN KeyReply("delete_channel", 200, None, channel_id)
                ELSE KeyReply("delete_channel", 404, "Channel not found", channel_id)
    /\ UNCHANGED <<now, video_cache, pc, last, catalog, selector, library,
                   schedules, next_schedule, blocking>>

\* delete_channel of src/server.py
delete_channel(channel_id) ==
    /\ channels' = SelectSeq(channels, LAMBDA c : c.channel_id # channel_id)
    /\ reply' = IF channel_id \in Range(db_channels)
                THEN KeyReply("delete_channel", 200, None, channel_id)
                ELSE KeyReply("delete_channel", 404, "Channel not found", channel_id)
    /\ UNCHANGED <<now, video_cache, pc, last, catalog, selector, library, admin>>

\* a field of request.json: absent, or the JSON value that was sent (a
\* number, null, or a string)
Absent == [kind |-> "absent", int |-> 0]
JsonNull == [kind |-> "null", int |-> 0]
JsonText == [kind |-> "str", int |-> 0]
JsonInt(n) == [kind |-> "int", int |-> n]

\* data.get(key, default): the default only when the key is absent
data_get(field, default) == IF field.kind = "absent" THEN default ELSE field

\* the field 'days' of request.json: absent, or the list that was sent
NoDays == [given |-> FALSE, list |-> <<>>]
Days(list) == [given |-> TRUE, list |-> list]

\* the default of data.get('days', [...])
all_days ==
    <<"monday", "tuesday", "wednesday", "thursday", "friday", "saturday",
      "sunday">>

\* a create_schedule that requires the name only
create_schedule_name_only(name, start_time, end_time, voice_repeat, days) ==
    /\ IF ~Truthy(name)
       THEN /\ reply' = Reply("create_schedule", 400,
                              "name, start_time, and end_time are required", 0)
            /\ UNCHANGED <<schedules, next_schedule>>
       ELSE LET schedule_id == next_schedule + 1
            IN  /\ schedules' = schedules @@
                       (schedule_id :> [name |-> name, start_time |-> start_time,
                                        end_time |-> end_time,
                                        voice_repeat |->
                                            data_get(voice_repeat, JsonInt(1)),
                                        days |-> IF days.given THEN days.list
                                                 ELSE all_days])
                /\ next_schedule' = schedule_id
                /\ reply' = Reply("create_schedule", 200, None, schedule_id)
    /\ UNCHANGED <<gateway, catalog, selector, library, blocked, blocking>>

\* create_schedule of the backend
create_schedule(name, start_time, end_time, voice_repeat, days) ==
    /\ IF ~(Truthy(name) /\ Truthy(start_time) /\ Truthy(end_time))
       THEN /\ reply' = Reply("create_schedule", 400,
                              "name, start_time, and end_time are required", 0)
            /\ UNCHANGED <<schedules, next_schedule>>
       ELSE LET schedule_id == next_schedule + 1
            IN  /\ schedules' = schedules @@
                       (schedule_id :> [name |-> name, start_time |-> start_time,
                                        end_time |-> end_time,
                                        voice_repeat |->
                                            data_get(voice_repeat, JsonInt(1)),
                                        days |-> IF days.given THEN days.list
                                                 ELSE all_days])
                /\ next_schedule' = schedule_id
                /\ reply' = Reply("create_schedule", 200, None, schedule_id)
    /\ UNCHANGED <<gateway, catalog, selector, library, blocked, blocking>>

\* a delete_schedule that answers before it looks
delete_schedule_blind(schedule_id) ==
    /\ schedules' = without(schedules, schedule_id)
    /\ reply' = Reply("delete_schedule", 200, None, schedule_id)
    /\ UNCHANGED <<gateway, catalog, selector, library, next_schedule,
                   blocked, blocking>>

\* delete_schedule of the backend
delete_schedule(schedule_id) ==
    /\ IF schedule_id \notin DOMAIN schedules
       THEN /\ reply' = Reply("delete_schedule", 404, "Schedule not found",
                              schedule_id)
            /\ UNCHANGED schedules
       ELSE /\ schedules' = without(schedules, schedule_id)
            /\ reply' = Reply("delete_schedule", 200, None, schedule_id)
    /\ UNCHANGED <<gateway, catalog, selector, library, next_schedule,
                   blocked, blocking>>

\* a request thread is free to take another block request
BlockFree == BagCardinality(blocking) < Cardinality(Threads)

\* block_video and block_channel up to "Check if already blocked"; table is
\* "video" for blocked_videos and "channel" for blocked_channels
block_check(table, op, id, reason, required, already) ==
    /\ BlockFree
    /\ IF ~Truthy(id)
       THEN /\ reply' = KeyReply(op, 400, required, id)
            /\ UNCHANGED blocking
       ELSE IF id \in DOMAIN blocked[table]
       THEN /\ reply' = KeyReply(op, 400, already, id)
            /\ UNCHANGED blocking
       ELSE /\ blocking' = blocking (+) One(
                   [table |-> table, op |-> op, id |-> id,
                    reason |-> get(reason, "Blocked by admin")])
            /\ UNCHANGED reply
    /\ UNCHANGED <<gateway, catalog, selector, library, schedules,
                   next_schedule, blocked>>

\* block_video of the backend, up to its INSERT
block_video(video_id, reason) ==
    block_check("video", "block_video", video_id, reason,
                "video_id is required", "Video already blocked")

\* block_channel of the backend, up to its INSERT
block_channel(channel_id, reason) ==
    block_check("channel", "block_channel", channel_id, reason,
                "channel_id is required", "Channel already blocked")

\* an INSERT into a block table that replaces the row of its key
block_insert_replace(b) ==
    /\ BagIn(b, blocking)
    /\ blocking' = blocking (-) One(b)
    /\ blocked' = [blocked EXCEPT ![b.table] =
                       without(@, b.id) @@ (b.id :> b.reason)]
    /\ reply' = KeyReply(b.op, 200, None, b.id)
    /\ UNCHANGED <<gateway, catalog, selector, library, schedules,
                   next_schedule>>

\* block_video and block_channel from the INSERT on, for the request b in
\* flight: the id is the PRIMARY KEY of its table, so the INSERT of an id
\* that got blocked since the check raises IntegrityError
block_insert(b) ==
    /\ BagIn(b, blocking)
    /\ blocking' = blocking (-) One(b)
    /\ IF b.id \in DOMAIN blocked[b.table]
       THEN /\ reply' = KeyReply(b.op, 500,
                                 IF b.table = "video"
                                 THEN "Failed to block video"
                                 ELSE "Failed to block channel", b.id)
            /\ UNCHANGED blocked
       ELSE /\ blocked' = [blocked EXCEPT ![b.table] = @ @@ (b.id :> b.reason)]
            /\ reply' = KeyReply(b.op, 200, None, b.id)
    /\ UNCHANGED <<gateway, catalog, selector, library, schedules,
                   next_schedule>>

\* unblock_video and unblock_channel of the backend
unblock(table, op, id, missing) ==
    /\ IF id \notin DOMAIN blocked[table]
       THEN /\ reply' = KeyReply(op, 404, missing, id)
            /\ UNCHANGED blocked
       ELSE /\ blocked' = [blocked EXCEPT ![table] = without(@, id)]
            /\ reply' = KeyReply(op, 200, None, id)
    /\ UNCHANGED <<gateway, catalog, selector, library, schedules,
                   next_schedule, blocking>>

unblock_video(video_id) ==
    unblock("video", "unblock_video", video_id,
            "Video not found in blocked list")

unblock_channel(channel_id) ==
    unblock("channel", "unblock_channel", channel_id,
            "Channel not found in blocked list")

----------------------------------------------------------------------------
(* The format selection on its own: one resolver result, one answer.       *)

Pending == [status |-> 0, error |-> None, data |-> NoData]

\* select_format that goes through the candidates whatever info.get('url')
\* gave
select_format_candidates_first ==
    /\ sel_resp = Pending
    /\ sel_resp' = extract_result("a1", [sel_info EXCEPT !.url = None], now)
    /\ UNCHANGED <<gateway, catalog, sel_info, store>>

select_format ==
    /\ sel_resp = Pending
    /\ sel_resp' = extract_result("a1", sel_info, now)
    /\ UNCHANGED <<gateway, catalog, sel_info, store>>

----------------------------------------------------------------------------
(* Specifications.                                                         *)

InitCache ==
    /\ now = 0
    /\ video_cache = <<>>
    /\ pc = [t \in Threads |-> Idle]
    /\ last = NoResponse
    /\ channels = default_channels

InitCatalog ==
    /\ groups = {}
    /\ videos = EmptyBag
    /\ next_group = 0
    /\ adding = EmptyBag
    /\ result = NoResult

InitSelect ==
    /\ sel_info = [url |-> None, has_formats |-> FALSE, formats |-> <<>>]
    /\ sel_resp = Pending

InitLibrary ==
    /\ video_groups = <<>>
    /\ group_videos = {}
    /\ sqlite_sequence = [video_groups |-> 0, group_videos |-> 0]
    /\ inserting = EmptyBag

InitAdmin ==
    /\ schedules = <<>>
    /\ next_schedule = 0
    /\ blocked = [video |-> <<>>, channel |-> <<>>]
    /\ blocking = EmptyBag

InitStore == InitLibrary /\ InitAdmin /\ reply = NoReply

Init == InitCache /\ InitCatalog /\ InitSelect /\ InitStore

Next ==
    \/ \E t \in Threads, v \in VideoIds \cup {""} : extract_video(t, v)
    \/ \E t \in Threads : extract_video_raise(t)
    \/ \E t \in Threads, info \in CachedInfos :
            extract_video_return(t, info)
    \/ \E t \in Threads : clear_cache(t)
    \/ Tick

Spec == Init /\ [][Next]_vars

\* the request parameters max_results and channel that the model sends
MaxResultsArgs == {"2", "x"}
ChannelArgs == {NoChannel, Channel("0"), Channel("2")}

\* The gateway with the channel listing, for one video id.
NextListing ==
    \/ \E t \in Threads, v \in {"a1", ""} : extract_video(t, v)
    \/ \E t \in Threads : extract_video_raise(t)
    \/ \E t \in Threads, info \in CachedInfos :
            extract_video_return(t, info)
    \/ \E t \in Threads, m \in MaxResultsArgs, c \in ChannelArgs :
            get_blippi_videos(t, m, c)
    \/ \E t \in Threads, info \in ChannelInfos :
            fetch_channel(t, FALSE, info)
    \/ \E t \in Threads :
            fetch_channel(t, TRUE, [has_entries |-> FALSE, entries |-> <<>>])
    \/ \E t \in Threads : clear_cache(t)
    \/ Tick

SpecListing == Init /\ [][NextListing]_vars

\* The catalog of the backend under concurrent requests.
CatalogIds == {"a1", "b2"}

\* every lookup of fetch_video_info returns an info dict that carries no
\* more than a flat playlist entry does
BareLookups ==
    [v \in CatalogIds |-> [raised |-> FALSE, title |-> None,
                           thumbnail |-> None, uploader |-> None]]
Batches == UNION {[1..k -> CatalogIds \cup {" a1", " "}] : k \in 0..MaxBatch}
EntryLists == UNION {[1..k -> CatalogIds \cup {None}] : k \in 0..MaxBatch}

NextCatalog ==
    \/ \E name \in {"", "Kids"}, ids \in Batches :
            /\ next_group < MaxGroups
            /\ backend_create_group(name, "video_ids", FALSE, ids, BareLookups,
                                    default_max_results)
    \/ \E raised \in BOOLEAN, ids \in EntryLists :
            /\ next_group < MaxGroups
            /\ backend_create_group("Kids", "playlist_id", raised, ids,
                                    BareLookups, default_max_results)
    \/ \E g \in 1..MaxGroups : backend_delete_group(g)
    \/ \E g \in 1..MaxGroups, ids \in Batches :
            add_videos_to_group(g, "video_ids", ids, BareLookups)
    \/ \E g \in 1..MaxGroups :
            add_videos_to_group(g, "playlist_id", <<>>, BareLookups)
    \/ \E a \in BagToSet(adding) :
            /\ a.mode = "video_ids"
            /\ add_videos_save(a, FALSE, <<>>)
    \/ \E a \in BagToSet(adding), raised \in BOOLEAN, entries \in EntryLists :
            /\ a.mode = "playlist_id"
            /\ add_videos_save(a, raised, entries)
    \/ \E g \in 1..MaxGroups, v \in CatalogIds :
            backend_delete_video_from_group(g, v)

SpecCatalog == Init /\ [][NextCatalog]_vars

\* The catalog of src/server.py under concurrent requests.
NextLibrary ==
    \/ \E group_name \in {None, "", "Kids"} :
            /\ sqlite_sequence.video_groups < MaxGroups
            /\ create_group(group_name)
    \/ \E g \in 1..MaxGroups, v \in VideoIds \cup {""},
          video_title \in {None, "T"}, thumbnail \in {None, "custom"} :
            /\ sqlite_sequence.group_videos + BagCardinality(inserting) < MaxRows
            /\ add_video_to_group(g, v, video_title, thumbnail)
    \/ \E a \in BagToSet(inserting) : add_video_insert(a)
    \/ \E g \in 1..MaxGroups : delete_group(g)
    \/ \E g \in 1..MaxGroups, id \in 1..MaxRows :
            delete_video_from_group(g, id)

SpecLibrary == Init /\ [][NextLibrary]_vars

\* The catalog of src/server.py with one request after the other: a request
\* starts only when no add_video_to_group is between its reads and its
\* INSERT.
NextSerial ==
    \/ \E group_name \in {None, "", "Kids"} :
            /\ inserting = EmptyBag
            /\ sqlite_sequence.video_groups < MaxGroups
            /\ create_group(group_name)
    \/ \E g \in 1..MaxGroups, v \in VideoIds \cup {""},
          video_title \in {None, "T"}, thumbnail \in {None, "custom"} :
            /\ inserting = EmptyBag
            /\ sqlite_sequence.group_videos < MaxSerialRows
            /\ add_video_to_group(g, v, video_title, thumbnail)
    \/ \E a \in BagToSet(inserting) : add_video_insert(a)
    \/ \E g \in 1..MaxGroups :
            /\ inserting = EmptyBag
            /\ delete_group(g)
    \/ \E g \in 1..MaxGroups, id \in 1..MaxSerialRows :
            /\ inserting = EmptyBag
            /\ delete_video_from_group(g, id)

SpecSerial == Init /\ [][NextSerial]_vars

\* The keyed tables of both servers side by side: every delete route, the
\* routes that validate their input, and the inserts they undo.
NextKeyed ==
    \/ \E group_name \in {None, "", "Kids"} :
            /\ sqlite_sequence.video_groups < MaxKeyed
            /\ create_group(group_name)
    \/ \E g \in 1..MaxKeyed : delete_group(g)
    \/ \E name \in {None, "", "Kids"}, ids \in {<<>>, <<"a1">>} :
            /\ next_group < MaxKeyed
            /\ backend_create_group(name, "video_ids", FALSE, ids, BareLookups,
                                    default_max_results)
    \/ \E name \in {None, ""}, raised \in BOOLEAN :
            /\ next_group < MaxKeyed
            /\ backend_create_group(name, "playlist_id", raised, <<"a1">>,
                                    BareLookups, default_max_results)
    \/ \E g \in 1..MaxKeyed : backend_delete_group(g)
    \/ \E channel_id \in {"", "UC123"}, channel_name \in {None, "News"} :
            add_channel(channel_id, channel_name, None, None)
    \/ \E channel_id \in {"UC123", "UC404"} : delete_channel(channel_id)
    \/ \E name \in {None, "Nap"}, start_time \in {None, "14:00"},
          end_time \in {"", "16:00"} :
            /\ next_schedule < MaxKeyed
            /\ create_schedule(name, start_time, end_time, Absent, NoDays)
    \/ \E id \in 1..MaxKeyed : delete_schedule(id)
    \/ \E video_id \in {None, "a1"} : block_video(video_id, None)
    \/ \E channel_id \in {"", "UC123"} : block_channel(channel_id, None)
    \/ \E b \in BagToSet(blocking) : block_insert(b)
    \/ unblock_video("a1")
    \/ unblock_channel("UC123")

SpecKeyed == Init /\ [][NextKeyed]_vars

\* The channels table of src/server.py on its own.
ChannelIdArgs == {"", "UC123", "UC5PYHgAzJ1jQzoyDQjOA1RA"}

NextChannels ==
    \/ \E channel_id \in ChannelIdArgs, channel_name \in {None, "News", "Toys"},
          description \in {None, "about"}, thumbnail \in {None, "t.jpg"} :
            add_channel(channel_id, channel_name, description, thumbnail)
    \/ \E channel_id \in {"UC123", "UC5PYHgAzJ1jQzoyDQjOA1RA", "UC404"} :
            delete_channel(channel_id)

SpecChannels == Init /\ [][NextChannels]_vars

\* The block lists of the backend under concurrent requests.
NextBlocked ==
    \/ \E video_id \in {"", "a1", "b2"}, reason \in {None, "spam"} :
            block_video(video_id, reason)
    \/ \E channel_id \in {None, "UC123"}, reason \in {None, "rude"} :
            block_channel(channel_id, reason)
    \/ \E b \in BagToSet(blocking) : block_insert(b)
    \/ \E video_id \in {"a1", "b2"} : unblock_video(video_id)
    \/ unblock_channel("UC123")

SpecBlocked == Init /\ [][NextBlocked]_vars

\* The schedules of the backend with the optional fields of the request.
VoiceRepeats == {Absent, JsonNull, JsonText, JsonInt(-1), JsonInt(0), JsonInt(3)}
DayLists == {NoDays, Days(<<"monday">>), Days(<<"funday">>)}

NextSchedules ==
    \/ \E name \in {"", "Nap"}, voice_repeat \in VoiceRepeats,
          days \in DayLists :
            /\ next_schedule < MaxSchedules
            /\ create_schedule(name, "14:00", "16:00", voice_repeat, days)
    \/ \E id \in 1..MaxSchedules : delete_schedule(id)

SpecSchedules == Init /\ [][NextSchedules]_vars

\* One group of the backend filled from explicit id lists, with lookups
\* that succeed, return a bare info dict, or raise.
Lookups == [CatalogIds -> LookupInfos]
EnrichBatches == UNION {[1..k -> CatalogIds \cup {" "}] : k \in 0..MaxBatch}

NextEnrich ==
    \/ \E ids \in EnrichBatches, lookup \in Lookups :
            /\ next_group < MaxKeyed
            /\ backend_create_group("Kids", "video_ids", FALSE, ids, lookup,
                                 default_max_results)
    \/ \E g \in 1..MaxKeyed, ids \in EnrichBatches, lookup \in Lookups :
            add_videos_to_group(g, "video_ids", ids, lookup)
    \/ \E a \in BagToSet(adding) : add_videos_save(a, FALSE, <<>>)
    \/ \E g \in 1..MaxKeyed, v \in CatalogIds :
            backend_delete_video_from_group(g, v)

SpecEnrich == Init /\ [][NextEnrich]_vars

\* The channel listing on its own, over the two default channels: the
\* lookup of the first is answered with entries that start with video a1,
\* or it raises; the lookup of the second with entries that carry b2 or no
\* id, with an info dict without 'entries', or it raises.
FetchMaxResults == {"0", "1", "2"}
FetchChannelArgs == {NoChannel}
NoInfo == [has_entries |-> FALSE, entries |-> <<>>]

FetchInfos(channel_id) ==
    IF channel_id = default_channels[1].channel_id
    THEN [has_entries : {TRUE},
          entries : {<<"a1">> \o rest :
                        rest \in UNION {[1..k -> {None, "a1"}] :
                                            k \in 0..(MaxEntries - 1)}}]
    ELSE [has_entries : {TRUE},
          entries : UNION {[1..k -> {None, "b2"}] : k \in 0..MaxEntries}]
         \cup {NoInfo}

NextFetch ==
    \/ \E t \in Threads, m \in FetchMaxResults, c \in FetchChannelArgs :
            get_blippi_videos(t, m, c)
    \/ \E t \in Threads :
            /\ pc[t].at = "fetch_channel"
            /\ \E info \in FetchInfos(Head(pc[t].todo)) :
                    fetch_channel(t, FALSE, info)
    \/ \E t \in Threads : fetch_channel(t, TRUE, NoInfo)
    \/ \E t \in Threads : clear_cache(t)

SpecFetch == Init /\ [][NextFetch]_vars

\* The three routes that cut a resolver's entry list to max_results: the
\* channel listing, the playlist, and create_group filled from a playlist.
\* Requests arrive one after the other.
CeilingResults == {0, 1, 2}
Sequential == {1}

NextCeiling ==
    \/ \E t \in Sequential, m \in FetchMaxResults :
            get_blippi_videos(t, m, NoChannel)
    \/ \E t \in Sequential :
            /\ pc[t].at = "fetch_channel"
            /\ \E info \in FetchInfos(Head(pc[t].todo)) :
                    fetch_channel(t, FALSE, info)
    \/ \E t \in Sequential : fetch_channel(t, TRUE, NoInfo)
    \/ \E t \in Sequential, playlist_id \in {"", "PL1"},
          m \in FetchMaxResults \cup {"x"} :
            extract_playlist(t, playlist_id, m)
    \/ \E t \in Sequential, info \in ChannelInfos :
            extract_playlist_return(t, info)
    \/ \E t \in Sequential : extract_playlist_raise(t)
    \/ \E raised \in BOOLEAN, entries \in EntryLists, m \in CeilingResults :
            /\ next_group < MaxKeyed
            /\ backend_create_group("Kids", "playlist_id", raised, entries,
                                    BareLookups, m)

SpecCeiling == Init /\ [][NextCeiling]_vars

\* Every route that waits for the resolver. A lookup that gets no answer
\* ends with an exception when its timeout expires (timeout=30 of
\* subprocess.run, the socket timeout of yt-dlp), so the steps in which a
\* lookup raises are taken whenever they stay possible; nothing is assumed
\* about a lookup ever returning.
NextLive ==
    \/ \E t \in Threads, v \in {"a1", ""} : extract_video(t, v)
    \/ \E t \in Threads, info \in CachedInfos : extract_video_return(t, info)
    \/ \E t \in Threads : extract_video_raise(t)
    \/ \E t \in Threads, c \in {NoChannel, Channel("0")} :
            get_blippi_videos(t, "2", c)
    \/ \E t \in Threads, info \in ChannelInfos : fetch_channel(t, FALSE, info)
    \/ \E t \in Threads : fetch_channel(t, TRUE, NoInfo)
    \/ \E t \in Threads, playlist_id \in {"", "PL1"} :
            extract_playlist(t, playlist_id, "2")
    \/ \E t \in Threads, info \in ChannelInfos :
            extract_playlist_return(t, info)
    \/ \E t \in Threads : extract_playlist_raise(t)
    \/ \E t \in Threads, v \in {"a1", ""} : simple_extract_video(t, v)
    \/ \E t \in Threads, returncode \in {0, 1}, stdout \in {"", "direct"} :
            simple_run_returns(t, returncode, stdout)
    \/ \E t \in Threads : simple_run_timeout(t)
    \/ \E t \in Threads : clear_cache(t)

Timeouts ==
    \A t \in Threads :
        /\ WF_vars(extract_video_raise(t))
        /\ WF_vars(fetch_channel(t, TRUE, NoInfo))
        /\ WF_vars(extract_playlist_raise(t))
        /\ WF_vars(simple_run_timeout(t))

SpecLive == Init /\ [][NextLive]_vars /\ Timeouts

\* The channel listing and its cache next to the routes of src/server.py
\* and of the backend that write the catalog, one request after the other.
\* The first default channel has the video a1, every other channel b2.
FrameInfos(channel_id) ==
    IF channel_id = default_channels[1].channel_id
    THEN [has_entries |-> TRUE, entries |-> <<"a1">>]
    ELSE [has_entries |-> TRUE, entries |-> <<"b2">>]

\* the listing that is asked for: max_results=2&channel=0
ListingRequests == {Channel("0")}

Quiet == \A t \in Sequential : pc[t].at = "idle"

NextFrame ==
    \/ \E t \in Sequential, c \in ListingRequests :
            get_blippi_videos(t, "2", c)
    \/ \E t \in Sequential :
            /\ pc[t].at = "fetch_channel"
            /\ fetch_channel(t, FALSE, FrameInfos(Head(pc[t].todo)))
    \/ \E t \in Sequential : fetch_channel(t, TRUE, NoInfo)
    \/ \E t \in Sequential : clear_cache(t)
    \/ Tick
    \/ Quiet /\ add_channel("UC123", "News", None, None)
    \/ Quiet /\ delete_channel(default_channels[1].channel_id)
    \/ /\ Quiet
       /\ sqlite_sequence.video_groups < MaxKeyed
       /\ create_group("Kids")
    \/ Quiet /\ delete_group(1)
    \/ /\ Quiet
       /\ sqlite_sequence.group_videos + BagCardinality(inserting) < MaxKeyed
       /\ add_video_to_group(1, "a1", "Title", None)
    \/ Quiet /\ \E a \in BagToSet(inserting) : add_video_insert(a)
    \/ Quiet /\ delete_video_from_group(1, 1)
    \/ /\ Quiet
       /\ next_schedule < MaxKeyed
       /\ create_schedule("Nap", "14:00", "16:00", Absent, NoDays)
    \/ Quiet /\ delete_schedule(1)
    \/ /\ Quiet
       /\ blocking = EmptyBag
       /\ block_video("a1", None)
    \/ Quiet /\ \E b \in BagToSet(blocking) : block_insert(b)
    \/ Quiet /\ unblock_video("a1")

SpecFrame == Init /\ [][NextFrame]_vars

\* The channels table of src/server.py and the listing cache across
\* restarts of the server.
NextStartup ==
    \/ startup
    \/ \E channel_name \in {"News", "Toys"}, description \in {None, "about"} :
            add_channel("UC123", channel_name, description, None)
    \/ \E channel_id \in {default_channels[1].channel_id,
                          default_channels[2].channel_id, "UC123"} :
            delete_channel(channel_id)
    \/ \E t \in Sequential, c \in ListingRequests :
            get_blippi_videos(t, "2", c)
    \/ \E t \in Sequential :
            /\ pc[t].at = "fetch_channel"
            /\ fetch_channel(t, FALSE, FrameInfos(Head(pc[t].todo)))

SpecStartup == Init /\ [][NextStartup]_vars

InitSel ==
    /\ InitCache /\ InitCatalog /\ InitStore
    /\ sel_info \in Infos /\ sel_resp = Pending

NextSel == select_format

SpecSelect == InitSel /\ [][NextSel]_vars

----------------------------------------------------------------------------
(* Properties of the format selection, checked under SpecSelect.           *)

NoCanonical == sel_info.url = None \/ sel_info.url = ""

Muxed(f) == f.acodec # "none" /\ f.vcodec # "none"

\* extract_video answered with the URL u, or failed if u is no URL
Answered(u) ==
    IF u = None \/ u = ""
    THEN sel_resp.status = 500 /\ sel_resp.data.url = None
    ELSE sel_resp.status = 200 /\ sel_resp.data.url = u

\* C3: without a canonical URL, the first candidate in list order that has
\* both an audio and a video track is the one whose URL is used, wherever it
\* stands in the list.
C3_FirstMuxedSelected ==
    (sel_resp # Pending /\ NoCanonical /\ sel_info.has_formats) =>
        \A i \in 1..Len(sel_info.formats) :
            (Muxed(sel_info.formats[i])
             /\ \A j \in 1..(i - 1) : ~Muxed(sel_info.formats[j]))
            => Answered(sel_info.formats[i].url)

C3_Witness ==
    /\ sel_resp.status = 200
    /\ NoCanonical
    /\ Len(sel_info.formats) = 3
    /\ ~Muxed(sel_info.formats[1]) /\ sel_info.formats[1].url = "fb"
    /\ Muxed(sel_info.formats[2]) /\ sel_info.formats[2].url = "fa"
    /\ ~Muxed(sel_info.formats[3]) /\ sel_info.formats[3].url = "fb"
    /\ sel_resp.data.url = "fa"

\* C25: when the resolver result carries a non-empty 'url', extract_video
\* answers 200 with exactly that URL, whatever the candidate list holds
\* and whether there is one.
C25_CanonicalFirst ==
    (sel_resp # Pending /\ ~NoCanonical)
    => /\ sel_resp.status = 200
       /\ sel_resp.data.url = sel_info.url

\* The canonical URL was returned although the first candidate has both
\* tracks and another URL.
C25_Witness ==
    /\ sel_resp.status = 200
    /\ sel_info.url = "direct"
    /\ sel_resp.data.url = "direct"
    /\ Len(sel_info.formats) = 3
    /\ Muxed(sel_info.formats[1]) /\ sel_info.formats[1].url = "fa"

\* C4: without a canonical URL and with a non-empty candidate list in which
\* no candidate has both tracks, the last candidate's URL is used.
C4_LastIsFallback ==
    (/\ sel_resp # Pending /\ NoCanonical /\ sel_info.has_formats
     /\ Len(sel_info.formats) >= 1
     /\ \A i \in 1..Len(sel_info.formats) : ~Muxed(sel_info.formats[i]))
    => Answered(sel_info.formats[Len(sel_info.formats)].url)

C4_Witness ==
    /\ sel_resp.status = 200
    /\ NoCanonical
    /\ Len(sel_info.formats) = 3
    /\ \A i \in 1..3 : ~Muxed(sel_info.formats[i])
    /\ sel_info.formats[1].url = "fa" /\ sel_info.formats[2].url = "fa"
    /\ sel_info.formats[3].url = "fb"
    /\ sel_resp.data.url = "fb"

\* C5: without a canonical URL and with an empty or missing candidate list,
\* extract_video fails with "Could not extract video URL" and gives no URL.
C5_EmptyFails ==
    (/\ sel_resp # Pending /\ NoCanonical
     /\ (~sel_info.has_formats \/ sel_info.formats = <<>>))
    => /\ sel_resp.status = 500
       /\ sel_resp.error = "Could not extract video URL"
       /\ sel_resp.data = NoData

C5_Witness ==
    /\ sel_resp.status = 500
    /\ sel_info.url = ""
    /\ sel_info.has_formats /\ sel_info.formats = <<>>

\* C6: extract_video fails only when there is no canonical URL and the
\* candidate list is empty; with a canonical URL or any candidate it
\* returns a URL.
C6_FailsOnlyWhenNothingAvailable ==
    sel_resp # Pending =>
        (sel_resp.status = 500 <=> (NoCanonical /\ sel_info.formats = <<>>))

----------------------------------------------------------------------------
(* Properties of the resolution cache.                                     *)

\* the step answers a lookup of video_id from the cache
ServedFromCache(video_id) ==
    /\ last' # last
    /\ last'.op = "extract_video" /\ last'.cached
    /\ last'.key = "video_" \o video_id

\* the step sends a request for video_id to the resolver
ResolverInvoked(video_id) ==
    \E t \in Threads :
        /\ pc[t].at = "idle"
        /\ pc'[t] = [at |-> "extract_info", video_id |-> video_id]

\* the step answers with a newly resolved payload for video_id
NewlyResolved(video_id) ==
    /\ last' # last
    /\ last'.op = "extract_video" /\ last'.status = 200 /\ ~last'.cached
    /\ last'.key = "video_" \o video_id

\* the entry of key was written less than an hour ago
Unexpired(key) ==
    key \in DOMAIN video_cache /\ now - video_cache[key].time < cache_timeout

\* C1: a resolved payload is written under its key with the time of the
\* write; an entry changes only by such a write or a clear; a lookup less
\* than an hour after the write is answered with exactly the stored payload
\* and without the resolver; a lookup of a missing key or an hour or more
\* after the write goes to the resolver.
C1_CacheTTL ==
    [][\A v \in VideoIds :
        LET key == "video_" \o v
        IN  /\ NewlyResolved(v) =>
                /\ key \in DOMAIN video_cache'
                /\ video_cache'[key] = [data |-> last'.data, time |-> now]
            /\ (key \in DOMAIN video_cache /\ key \in DOMAIN video_cache'
                /\ video_cache'[key] # video_cache[key]) => NewlyResolved(v)
            /\ ServedFromCache(v) =>
                /\ Unexpired(key)
                /\ last'.data = video_cache[key].data
                /\ pc' = pc
            /\ ResolverInvoked(v) => ~Unexpired(key)
      ]_vars

C1_Witness ==
    /\ last.op = "extract_video" /\ last.cached
    /\ last.data.extracted_at < now
    /\ \E t \in Threads :
        /\ pc[t].at = "extract_info"
        /\ cache_key(pc[t].video_id) \in DOMAIN video_cache
        /\ now - video_cache[cache_key(pc[t].video_id)].time >= cache_timeout

\* C2: clear_cache reports the number of entries the cache held and leaves
\* it empty, and as long as nothing has been resolved since, no lookup is
\* answered from the cache.
C2_ClearCache ==
    [][/\ (last' # last /\ last'.op = "clear_cache") =>
            /\ last'.cleared = Cardinality(DOMAIN video_cache)
            /\ DOMAIN video_cache' = {}
       /\ last.op = "clear_cache" =>
            /\ DOMAIN video_cache = {}
            /\ \A v \in VideoIds : ~ServedFromCache(v)
      ]_vars

C2_Witness ==
    /\ last.op = "clear_cache" /\ last.cleared = 3
    /\ DOMAIN video_cache = {}
    /\ \E t \in Threads : pc[t].at = "extract_info"

\* C7: a request that is answered with an error leaves the cache as it was;
\* the cache changes only in a step that answers 200 with a newly built
\* response, or clears.
C7_FailureLeavesCache ==
    [][/\ (/\ last'.status >= 400
           /\ \/ last' # last
              \/ \E t \in Threads : pc[t].at # "idle" /\ pc'[t].at = "idle")
          => video_cache' = video_cache
       /\ video_cache' # video_cache =>
            (last' # last /\ last'.status = 200 /\ ~last'.cached)
      ]_vars

C7_Witness ==
    /\ last.op = "get_blippi_videos"
    /\ last.status = 500 /\ last.error = "IndexError"
    /\ \E v \in VideoIds : cache_key(v) \in DOMAIN video_cache
    /\ \E k \in DOMAIN video_cache : k \notin {cache_key(v) : v \in VideoIds}

----------------------------------------------------------------------------
(* Properties of the backend catalog, checked under SpecCatalog.           *)

\* how many rows of a table carry this group_id and video_id
copies(rows, group_id, video_id) ==
    LET same == {r \in BagToSet(rows) :
                    r.group_id = group_id /\ r.video_id = video_id}
    IN  IF same = {} THEN 0 ELSE BagCardinality([r \in same |-> rows[r]])

C9_MembershipUnique ==
    \A r \in BagToSet(videos) : copies(videos, r.group_id, r.video_id) = 1

C9_Witness ==
    /\ result.op = "add_videos_to_group"
    /\ result.status = 500 /\ result.error = "Failed to save changes"
    /\ group_members(result.group_id) # {}

\* C10: once delete_group has answered success for a group, no row of
\* videos carries its group_id.
C10_CascadeDelete ==
    (result.op = "delete_group" /\ result.status = 200)
        => group_members(result.group_id) = {}

C19_ConcurrentAdds ==
    [][\A a \in BagToSet(adding) :
          (adding' = adding (-) One(a) /\ a.mode = "video_ids")
          => /\ result'.status = 200
             /\ result'.added_count =
                    BagCardinality(videos') - BagCardinality(videos)
      ]_vars

----------------------------------------------------------------------------
(* Properties of the explicit id lists of the backend, checked under       *)
(* SpecEnrich.                                                             *)

\* the row of the placeholder record of fetch_video_info
placeholder(group_id, video_id) ==
    [group_id |-> group_id, video_id |-> video_id, title |-> "Unknown Title",
     thumbnail |-> "https://i.ytimg.com/vi/" \o video_id \o "/hqdefault.jpg",
     uploader |-> "Unknown"]

\* the row INSERT INTO videos writes for a video record
row_of(group_id, video) ==
    [group_id |-> group_id, video_id |-> video.video_id,
     title |-> video.title, thumbnail |-> video.thumbnail,
     uploader |-> video.uploader]

----------------------------------------------------------------------------
(* Properties of the catalog of src/server.py, checked under SpecLibrary.  *)

\* the thumbnails a group may take from its rows: that of a first row by
\* position, or empty for a group without rows
first_thumbnails(rows) ==
    IF rows = {} THEN {""}
    ELSE {r.video_thumbnail : r \in first_rows(rows)}

\* C11: when delete_video_from_group removes a row of a group, the group's
\* thumbnail becomes that of the remaining row with the lowest position (or
\* empty) if the removed row was first by position, and stays as it was if
\* the removed row was not first by position.
C11_ThumbnailOnRemoval ==
    [][\A r \in group_videos \ group_videos' :
          r.group_id \in DOMAIN video_groups =>
            IF r \in first_rows(rows_of(r.group_id))
            THEN video_groups'[r.group_id] \in
                     first_thumbnails(rows_of(r.group_id) \ {r})
            ELSE video_groups'[r.group_id] = video_groups[r.group_id]
      ]_vars

\* C12: a request of add_video_to_group takes next_position one above the
\* largest position it finds in the group, 1 in a group without rows; the
\* row it inserts gets that position, and the group's thumbnail becomes the
\* row's thumbnail exactly when the position is 1.
C12_PositionAssignment ==
    [][/\ \A a \in BagToSet(inserting') :
            inserting' = inserting (+) One(a) =>
               /\ \A r \in rows_of(a.group_id) : r.position < a.next_position
               /\ \/ a.next_position = 1 /\ rows_of(a.group_id) = {}
                  \/ \E r \in rows_of(a.group_id) :
                        r.position = a.next_position - 1
               /\ a.video_thumbnail \in {hqdefault(a.video_id), "custom"}
       /\ \A r \in group_videos' \ group_videos :
            LET a == [group_id |-> r.group_id, video_id |-> r.video_id,
                      video_thumbnail |-> r.video_thumbnail,
                      next_position |-> r.position]
            IN  /\ BagIn(a, inserting)
                /\ inserting' = inserting (-) One(a)
                /\ r.id = sqlite_sequence.group_videos + 1
                /\ r.group_id \in DOMAIN video_groups =>
                      video_groups'[r.group_id] =
                          IF r.position = 1 THEN r.video_thumbnail
                          ELSE video_groups[r.group_id]
      ]_vars

\* An empty group got two videos one after the other: two rows at positions
\* 1 and 2, and the group's thumbnail is the templated one of the first.
C12_Witness ==
    /\ reply = Reply("add_video_to_group", 201, None, 2)
    /\ inserting = EmptyBag
    /\ DOMAIN video_groups = {1}
    /\ group_videos =
          {[id |-> 1, group_id |-> 1, video_id |-> "a1",
            video_thumbnail |-> hqdefault("a1"), position |-> 1],
           [id |-> 2, group_id |-> 1, video_id |-> "b2",
            video_thumbnail |-> hqdefault("b2"), position |-> 2]}
    /\ video_groups[1] = "https://i.ytimg.com/vi/a1/hqdefault.jpg"

\* C13: a delete_video_from_group that answers 404 "Video not found" (no
\* row with that id in that group) leaves video_groups, thumbnails
\* included, and group_videos as they were.
C13_AbsentRemovalChangesNothing ==
    [][(reply'.op = "delete_video_from_group" /\ reply'.status = 404)
          => UNCHANGED <<video_groups, group_videos>>]_vars

----------------------------------------------------------------------------
(* Properties of the keyed tables, checked under SpecKeyed.                *)

\* the tables written by the requests that answer in reply
reply_tables == <<channels, video_groups, group_videos, schedules, blocked>>

\* the tables written by the requests that answer in result
result_tables == <<groups, videos>>

\* table f lost exactly the row of key k
Lost(f, g, k) ==
    /\ k \in DOMAIN f
    /\ DOMAIN g = DOMAIN f \ {k}
    /\ \A j \in DOMAIN g : g[j] = f[j]

C15_ValidationWritesNothing ==
    /\ [][/\ \A name \in {None, ""}, mode \in {"video_ids", "playlist_id"},
              raised \in BOOLEAN, ids \in {<<>>, <<"a1">>} :
                backend_create_group(name, mode, raised, ids, BareLookups,
                                     default_max_results) =>
                  /\ result'.status = 400
                  /\ result'.error = "Group name is required"
                  /\ UNCHANGED <<result_tables, reply_tables, next_group>>
          /\ \A name \in {None, "", "Nap"}, start_time \in {None, "", "14:00"},
                end_time \in {None, "", "16:00"} :
                (/\ None \in {name, start_time, end_time}
                      \/ "" \in {name, start_time, end_time}
                 /\ create_schedule(name, start_time, end_time, Absent,
                                    NoDays)) =>
                  /\ reply'.status = 400
                  /\ UNCHANGED <<result_tables, reply_tables, next_schedule>>
          /\ \A group_name \in {None, ""} :
                create_group(group_name) =>
                  /\ reply'.status = 400
                  /\ UNCHANGED <<result_tables, reply_tables, sqlite_sequence>>
         ]_vars
    /\ [](\A id \in DOMAIN schedules :
             /\ Truthy(schedules[id].name)
             /\ Truthy(schedules[id].start_time)
             /\ Truthy(schedules[id].end_time))

\* Both validations have failed, next to a table that holds a row, and
\* no group and no schedule exists.
C15_Witness ==
    /\ result.op = "create_group" /\ result.status = 400
    /\ reply.op = "create_schedule" /\ reply.status = 400
    /\ "a1" \in DOMAIN blocked.video
    /\ groups = {} /\ next_group = 0
    /\ schedules = <<>> /\ next_schedule = 0

----------------------------------------------------------------------------
(* Properties of the channels table, checked under SpecChannels.           *)

\* C16: add_channel with a channel_id that the table holds leaves every row
\* as it was and answers 409 "Channel already exists" (400 when the request
\* carries no channel_name); no two rows ever share a channel_id.
C16_AddChannelConflict ==
    /\ [][\A channel_id \in ChannelIdArgs, channel_name \in {None, "News", "Toys"},
             description \in {None, "about"}, thumbnail \in {None, "t.jpg"} :
               (/\ channel_id \in Range(db_channels)
                /\ add_channel(channel_id, channel_name, description, thumbnail))
               => /\ channels' = channels
                  /\ reply'.key = channel_id
                  /\ reply'.status = IF Truthy(channel_name) THEN 409 ELSE 400
                  /\ Truthy(channel_name) =>
                        reply'.error = "Channel already exists"
         ]_vars
    /\ [](\A i, j \in 1..Len(channels) :
             channels[i].channel_id = channels[j].channel_id => i = j)

\* A second add of "UC123" was refused, and the row of "UC123" is the one
\* the first add inserted.
C16_Witness ==
    /\ reply = KeyReply("add_channel", 409, "Channel already exists", "UC123")
    /\ Len(channels) = 3
    /\ channels[3] = [channel_id |-> "UC123", channel_name |-> "News",
                      description |-> "about", thumbnail |-> ""]

----------------------------------------------------------------------------
(* Properties of the block lists, checked under SpecBlocked.               *)

\* C17: block_video and block_channel with an id that the list holds answer
\* 400 "... already blocked" and leave both lists, reasons included, as
\* they were; a block request that answers success has added one entry,
\* with its id and its reason, to a list that did not hold the id; a block
\* request that fails changes no list.
C17_BlockList ==
    [][/\ \A video_id \in {"a1", "b2"}, reason \in {None, "spam"} :
            (video_id \in DOMAIN blocked.video /\ block_video(video_id, reason))
            => /\ reply' = KeyReply("block_video", 400,
                                    "Video already blocked", video_id)
               /\ UNCHANGED <<blocked, blocking>>
       /\ \A reason \in {None, "rude"} :
            ("UC123" \in DOMAIN blocked.channel /\ block_channel("UC123", reason))
            => /\ reply' = KeyReply("block_channel", 400,
                                    "Channel already blocked", "UC123")
               /\ UNCHANGED <<blocked, blocking>>
       /\ \A table \in {"video", "channel"} :
            (reply'.op = "block_" \o table
             /\ (reply' # reply \/ blocked' # blocked)) =>
               IF reply'.status = 200
               THEN /\ reply'.key \notin DOMAIN blocked[table]
                    /\ Lost(blocked'[table], blocked[table], reply'.key)
                    /\ blocked'[table][reply'.key] \in
                          {"Blocked by admin", "spam", "rude"}
                    /\ \E b \in BagToSet(blocking) :
                          /\ b.id = reply'.key /\ b.table = table
                          /\ blocked'[table][reply'.key] = b.reason
                          /\ blocking' = blocking (-) One(b)
                    /\ \A other \in {"video", "channel"} \ {table} :
                          blocked'[other] = blocked[other]
               ELSE blocked' = blocked
      ]_vars

\* "UC123" was blocked without a reason, a second block of it was refused,
\* and the list holds the one entry of the first.
C17_Witness ==
    /\ reply = KeyReply("block_channel", 400, "Channel already blocked", "UC123")
    /\ blocked.channel = ("UC123" :> "Blocked by admin")
    /\ blocking = EmptyBag

----------------------------------------------------------------------------
(* Properties of the channel listing, checked under SpecFetch.             *)

\* the tail of a sequence from index k on
Suffix(seq, k) == SubSeq(seq, k, Len(seq))

\* C21: when the lookup of one channel raises, the listing goes on with the
\* channels that remain, in the order of the table, keeps the videos it has
\* collected, and answers 200 with them once the last channel is done; a
\* lookup that returns appends the videos of its channel.
C21_ChannelFailureTolerated ==
    /\ [][\A t \in Threads :
            /\ fetch_channel(t, TRUE, NoInfo)
               => IF Len(pc[t].todo) > 1
                  THEN /\ pc'[t].at = "fetch_channel"
                       /\ pc'[t].todo = Tail(pc[t].todo)
                       /\ pc'[t].all_videos = pc[t].all_videos
                       /\ UNCHANGED <<last, video_cache>>
                  ELSE /\ pc'[t] = Idle
                       /\ last'.op = "get_blippi_videos"
                       /\ last'.status = 200
                       /\ last'.data.videos =
                              Slice(pc[t].all_videos, pc[t].max_results)
            /\ (pc[t].at = "fetch_channel" /\ Len(pc[t].todo) > 1)
               => \A info \in FetchInfos(Head(pc[t].todo)) :
                  fetch_channel(t, FALSE, info)
                  => /\ pc'[t].todo = Tail(pc[t].todo)
                     /\ pc'[t].all_videos =
                            pc[t].all_videos
                               \o channel_videos(info, pc[t].max_results)
         ]_vars
    /\ [](\A t \in Threads :
            pc[t].at = "fetch_channel"
            => \E k \in 1..Len(db_channels) :
                  pc[t].todo = Suffix(db_channels, k))

\* A listing over both channels answered 200 with videos of the second
\* channel only: the lookup of the first channel had raised.
C21_Witness ==
    /\ last.op = "get_blippi_videos"
    /\ last.status = 200
    /\ ~last.cached
    /\ last.data.videos # <<>>
    /\ last.data.videos[1] = "b2"

----------------------------------------------------------------------------
(* Properties of the routes that cut an entry list, checked under          *)
(* SpecCeiling.                                                            *)

\* sub is seq with some elements left out, the others in their order
IsSubsequence(sub, seq) ==
    \E f \in [1..Len(sub) -> 1..Len(seq)] :
        /\ \A i \in 1..Len(sub) : seq[f[i]] = sub[i]
        /\ \A i, j \in 1..Len(sub) : i < j => f[i] < f[j]

\* head is the beginning of seq
IsPrefix(head, seq) ==
    /\ Len(head) <= Len(seq)
    /\ head = SubSeq(seq, 1, Len(head))

\* found is what a route may keep of the entries with the ceiling n: no
\* more than n ids, none of them missing, taken in order from the first n
\* entries
Kept(found, entries, n) ==
    /\ Len(found) <= n
    /\ \A i \in 1..Len(found) : Truthy(found[i])
    /\ IsSubsequence(found, SubSeq(entries, 1, Min(n, Len(entries))))

\* C22: with max_results >= 0, a playlist answers with at most max_results
\* videos, all with an id and in the order of the resolver's entries, and
\* count is their number; every turn of the channel listing adds such a
\* list to all_videos, the listing answers with the first max_results of
\* all_videos at most and with their number as count; and create_group
\* inserts at most max_results rows, for ids among the first max_results
\* entries of its playlist.
C22_ResultCeiling ==
    [][/\ \A t \in Threads :
            pc[t].at = "extract_playlist"
            => \A info \in ChannelInfos :
                  extract_playlist_return(t, info)
                  => /\ Kept(last'.data.videos, info.entries,
                             pc[t].max_results)
                     /\ last'.data.count = Len(last'.data.videos)
       /\ \A t \in Threads :
            pc[t].at = "fetch_channel"
            => \A info \in FetchInfos(Head(pc[t].todo)) :
                  fetch_channel(t, FALSE, info)
                  => \E found \in UNION {[1..k -> VideoIds] :
                                            k \in 0..pc[t].max_results} :
                        /\ Kept(found, info.entries, pc[t].max_results)
                        /\ IF Len(pc[t].todo) > 1
                           THEN pc'[t].all_videos = pc[t].all_videos \o found
                           ELSE /\ IsPrefix(last'.data.videos,
                                            pc[t].all_videos \o found)
                                /\ Len(last'.data.videos) <= pc[t].max_results
                                /\ last'.data.count = Len(last'.data.videos)
       /\ (groups' # groups \/ videos' # videos)
          => \A entries \in EntryLists, m \in CeilingResults :
            backend_create_group("Kids", "playlist_id", FALSE, entries,
                                 BareLookups, m)
            => /\ BagCardinality(videos') - BagCardinality(videos) <= m
               /\ \A r \in BagToSet(videos') \ BagToSet(videos) :
                     /\ Truthy(r.video_id)
                     /\ \E i \in 1..Min(m, Len(entries)) :
                           entries[i] = r.video_id
      ]_vars

\* A listing over both channels with max_results 1 was answered with one
\* video, and a group was created from a playlist with one row.
C22_Witness ==
    /\ last.op = "get_blippi_videos"
    /\ last.status = 200
    /\ last.key = channel_cache_key(1, NoChannel)
    /\ last.data.videos = <<"a1">>
    /\ last.data.count = 1
    /\ result.op = "create_group"
    /\ result.status = 200
    /\ BagCardinality(videos) = 1

----------------------------------------------------------------------------
(* Properties of the cache under concurrent requests, checked under        *)
(* SpecListing.                                                            *)

\* the cache key of a request that waits for the resolver
key_of(request) ==
    IF request.at = "extract_info" THEN cache_key(request.video_id)
    ELSE request.key

\* C23, as stated: as long as an entry is less than an hour old and the
\* cache is not cleared, no step changes what is stored under its key.
C23_EntryStable ==
    [][\A k \in DOMAIN video_cache :
          (Unexpired(k) /\ k \in DOMAIN video_cache')
          => video_cache'[k] = video_cache[k]
      ]_vars

\* C23: an entry leaves the cache only when the cache is cleared; a request
\* that finds an entry less than an hour old is answered from it and does
\* not go to the resolver; and such an entry is replaced only by a request
\* for its key that was already waiting for the resolver, which stores its
\* own payload with the time of its write.
C23_ReplacedOnlyAfterMiss ==
    [][/\ \A k \in DOMAIN video_cache :
            /\ k \notin DOMAIN video_cache'
               => video_cache' = <<>> /\ last'.op = "clear_cache"
            /\ (/\ Unexpired(k)
                /\ k \in DOMAIN video_cache'
                /\ video_cache'[k] # video_cache[k])
               => \E t \in Threads :
                     /\ pc[t].at \in {"extract_info", "fetch_channel"}
                     /\ key_of(pc[t]) = k
                     /\ pc'[t] = Idle
                     /\ last'.status = 200
                     /\ video_cache'[k] = [data |-> last'.data, time |-> now]
       /\ \A t \in Threads :
            (pc[t].at = "idle" /\ pc'[t].at # "idle")
            => ~Unexpired(key_of(pc'[t]))
      ]_vars

\* A request waits for the resolver while the entry of its key is less
\* than an hour old: it missed before another request stored the entry.
C23_Witness ==
    \E t \in Threads :
        /\ pc[t].at \in {"extract_info", "fetch_channel"}
        /\ Unexpired(key_of(pc[t]))

----------------------------------------------------------------------------
(* Progress of the requests that wait for the resolver, checked under      *)
(* SpecLive.                                                               *)

----------------------------------------------------------------------------
(* Properties of concurrent lookups of one video, checked under Spec.      *)

\* C26: nothing makes a request wait for another one: an idle thread whose
\* key has no entry less than an hour old can always go to the resolver,
\* also while another request for the same key is there; and every request
\* that comes back with a URL stores its payload with the time of its
\* write, replacing whatever entry the key has, so the entry is that of
\* the last write.
C26_NoSingleFlight ==
    /\ [](\A t \in Threads, v \in VideoIds :
            (pc[t].at = "idle" /\ ~Unexpired(cache_key(v)))
            => ENABLED (/\ extract_video(t, v)
                        /\ pc'[t] = [at |-> "extract_info", video_id |-> v]))
    /\ [][\A t \in Threads :
            (/\ pc[t].at = "extract_info"
             /\ pc'[t] = Idle
             /\ last'.status = 200)
            => /\ cache_key(pc[t].video_id) \in DOMAIN video_cache'
               /\ video_cache'[cache_key(pc[t].video_id)] =
                      [data |-> last'.data, time |-> now]
         ]_vars

\* Two requests for the same video wait for the resolver at the same time,
\* and the cache has no entry for it.
C26_Witness ==
    /\ pc[1].at = "extract_info"
    /\ pc[2].at = "extract_info"
    /\ pc[1].video_id = pc[2].video_id
    /\ cache_key(pc[1].video_id) \notin DOMAIN video_cache

----------------------------------------------------------------------------
(* The cache next to the writes of the catalog, checked under SpecFrame.   *)

\* C27: a request that adds or removes a channel, creates or deletes a
\* group, adds or removes a video of a group, or writes a schedule or a
\* block table leaves the cache as it is; an entry leaves the cache only
\* when clear_cache empties it; and a listing whose entry is less than an
\* hour old is answered with that entry, whatever the channels are by now.
C27_CatalogWritesKeepCache ==
    /\ [][(\/ channels' # channels
           \/ library' # library
           \/ admin' # admin
           \/ reply' # reply)
          => video_cache' = video_cache]_vars
    /\ [][(\E k \in DOMAIN video_cache : k \notin DOMAIN video_cache')
          => /\ last'.op = "clear_cache"
             /\ video_cache' = <<>>]_vars
    /\ [][\A c \in ListingRequests :
            (/\ cache_hit(channel_cache_key(2, c))
             /\ last' # last
             /\ last'.op = "get_blippi_videos"
             /\ last'.key = channel_cache_key(2, c))
            => /\ last'.status = 200
               /\ last'.cached
               /\ last'.data = video_cache[channel_cache_key(2, c)].data
               /\ video_cache' = video_cache
         ]_vars

\* The listing of the first channel was stored with its video; the channel
\* has been deleted and another one added since, and the request is answered
\* from the entry.
C27_Witness ==
    /\ cache_hit(channel_cache_key(2, Channel("0")))
    /\ video_cache[channel_cache_key(2, Channel("0"))].data.videos = <<"a1">>
    /\ default_channels[1].channel_id \notin Range(db_channels)
    /\ "UC123" \in Range(db_channels)
    /\ reply.op = "add_channel"
    /\ reply.status = 201
    /\ last.op = "get_blippi_videos"
    /\ last.cached
    /\ last.key = channel_cache_key(2, Channel("0"))

\* C28: a listing answered from the cache for (max_results, channel_index)
\* carries videos of the channel that channel_index designates when the
\* request is made, that is, of the channel at that place of db_channels.
\* The key is made of the index and not of the channel_id, so an entry
\* stored before a channel was deleted answers for the channel that has
\* moved to the index.
C28_HitForDesignatedChannel ==
    [][(/\ last' # last
        /\ last'.op = "get_blippi_videos"
        /\ last'.cached
        /\ last'.key = channel_cache_key(2, Channel("0"))
        /\ db_channels # <<>>)
       => Range(last'.data.videos)
              \subseteq Range(FrameInfos(db_channels[1]).entries)
      ]_vars

----------------------------------------------------------------------------
(* What the removal of a channel and the block routes leave alone, checked *)
(* under SpecKeyed.                                                        *)

\* everything the servers store except the channels table and the two
\* block tables
OtherTables ==
    <<groups, videos, video_groups, group_videos, sqlite_sequence, schedules,
      next_group, next_schedule>>

\* C29: delete_channel changes the channels table only: it takes out the
\* rows of the channel_id and leaves every group, membership row, schedule
\* and block entry as it was; and a request that changes one block table
\* changes nothing else, the other block table included.
C29_NoCascade ==
    /\ [][(reply' # reply /\ reply'.op = "delete_channel")
          => /\ channels' = SelectSeq(channels,
                                LAMBDA c : c.channel_id # reply'.key)
             /\ UNCHANGED <<OtherTables, blocked, blocking, inserting,
                            adding, video_cache>>]_vars
    /\ [][channels' # channels
          => UNCHANGED <<OtherTables, blocked>>]_vars
    /\ [][\A table \in {"video", "channel"} :
            blocked'[table] # blocked[table]
            => /\ \A other \in {"video", "channel"} \ {table} :
                      blocked'[other] = blocked[other]
               /\ UNCHANGED <<OtherTables, channels, video_cache>>]_vars

\* A channel has just been deleted while a group with a membership row, a
\* schedule and a block entry for that very channel exist.
C29_Witness ==
    /\ reply.op = "delete_channel"
    /\ reply.status = 200
    /\ reply.key = "UC123"
    /\ "UC123" \notin Range(db_channels)
    /\ "UC123" \in DOMAIN blocked.channel
    /\ "a1" \in DOMAIN blocked.video
    /\ groups # {}
    /\ BagToSet(videos) # {}
    /\ DOMAIN schedules # {}
    /\ DOMAIN video_groups # {}

----------------------------------------------------------------------------
(* Membership rows and their groups under concurrent requests, checked     *)
(* under SpecCatalog.                                                      *)

\* C30: every row that a request inserts into videos carries the id of a
\* group that exists when the insert commits, also when delete_group ran
\* after the request had found its group.
C30_NoOrphanInsert ==
    [][\A row \in BagToSet(videos') :
            CopiesIn(row, videos') > CopiesIn(row, videos)
            => row.group_id \in groups'
      ]_vars

----------------------------------------------------------------------------
(* The list of groups, checked under SpecCatalog.                          *)

\* C31: the list of groups has the most recently created group first: of
\* two groups in the list, the one created later comes earlier; and each
\* group is listed with exactly the rows of videos stored for it.
C31_ListedByRecency ==
    /\ \A i, j \in DOMAIN load_groups :
            i < j => load_groups[i].id > load_groups[j].id
    /\ \A i \in DOMAIN load_groups :
            {r.video_id : r \in load_groups[i].videos}
                = group_members(load_groups[i].id)

----------------------------------------------------------------------------
(* The fields of a stored schedule, checked under SpecSchedules.           *)

\* C32: every schedule that create_schedule has stored has a voice_repeat
\* that is an integer of at least 1, and days that are names of weekdays.
C32_ScheduleFields ==
    \A id \in DOMAIN schedules :
        /\ schedules[id].voice_repeat.kind = "int"
        /\ schedules[id].voice_repeat.int >= 1
        /\ Range(schedules[id].days) \subseteq Range(all_days)

----------------------------------------------------------------------------
(* Positions of the rows of group_videos, checked under SpecLibrary.       *)

\* C33: the rows of a group are in the order of their insertion when they
\* are listed by position: positions are at least 1, and of two rows of a
\* group the one inserted later (the larger AUTOINCREMENT id) has the
\* strictly greater position.
C33_InsertionOrder ==
    \A r \in group_videos :
        /\ r.position >= 1
        /\ \A q \in rows_of(r.group_id) :
                r.id < q.id => r.position < q.position

----------------------------------------------------------------------------
(* The thumbnail of a group, checked under SpecSerial.                     *)

\* C34: with one request after the other, the thumbnail of every group is
\* the video_thumbnail of its row with the lowest position, and the empty
\* string when the group has no rows.
C34_DerivedThumbnail ==
    \A g \in DOMAIN video_groups :
        IF rows_of(g) = {}
        THEN video_groups[g] = ""
        ELSE \A r \in first_rows(rows_of(g)) :
                 video_groups[g] = r.video_thumbnail

\* The row that had position 1 has just been removed from a group: the
\* first row left has a higher position, and the thumbnail of the group is
\* now the one of that row.
C34_Witness ==
    /\ reply.op = "delete_video_from_group"
    /\ reply.status = 200
    /\ 1 \in DOMAIN video_groups
    /\ rows_of(1) # {}
    /\ \A r \in rows_of(1) : r.position > 1
    /\ video_groups[1] = "custom"

----------------------------------------------------------------------------
(* Positions under concurrent requests, checked under SpecLibrary.         *)

\* C35: no two rows of one group have the same position, also when two
\* requests of add_video_to_group read MAX(position) before either of them
\* inserts; so exactly one row of a group with rows is first by position.
C35_UniquePositions ==
    /\ \A r, q \in group_videos :
            (r.group_id = q.group_id /\ r.position = q.position) => r = q
    /\ \A g \in DOMAIN video_groups :
            rows_of(g) # {} => Cardinality(first_rows(rows_of(g))) = 1

----------------------------------------------------------------------------
(* Entries that have expired, checked under Spec.                          *)

\* C36: nothing sweeps the cache. A request that finds the entry of its key
\* expired goes to the resolver and leaves the entry where it is, and so
\* does the request when the lookup fails; from one clear_cache to the next
\* no key leaves the cache; and clear_cache reports the number of all the
\* entries it drops, the expired ones included.
C36_ExpiredEntriesStay ==
    /\ [][\A t \in Threads :
            (/\ pc[t].at = "idle"
             /\ pc'[t].at = "extract_info")
            => video_cache' = video_cache]_vars
    /\ [][\A t \in Threads :
            (/\ pc[t].at = "extract_info"
             /\ pc'[t] = Idle
             /\ last'.status # 200)
            => video_cache' = video_cache]_vars
    /\ [][\/ DOMAIN video_cache \subseteq DOMAIN video_cache'
          \/ last'.op = "clear_cache"]_vars
    /\ [][(/\ last'.op = "clear_cache"
           /\ (last' # last \/ video_cache' # video_cache))
          => /\ video_cache' = <<>>
             /\ last'.cleared = Cardinality(DOMAIN video_cache)
             /\ last'.cleared >=
                    Cardinality({k \in DOMAIN video_cache : ~Unexpired(k)})
         ]_vars

\* The entry of a video had expired, a request for the video went to the
\* resolver, the lookup failed, and the expired entry is still in the cache.
C36_Witness ==
    /\ last.op = "extract_video"
    /\ last.status = 500
    /\ last.key \in DOMAIN video_cache
    /\ ~Unexpired(last.key)

----------------------------------------------------------------------------
(* Listings without videos, checked under SpecListing.                     *)

\* C37: when the lookup of the last channel raises and no earlier channel
\* has given a video, the listing answers 200 with no videos and count 0
\* and stores that response under its key with the time of the write; and
\* a request whose key has such an entry less than an hour old is answered
\* with it, marked as cached, without going to the resolver.
C37_DegradedListingCached ==
    /\ [][\A t \in Threads :
            (/\ pc[t].at = "fetch_channel"
             /\ Len(pc[t].todo) = 1
             /\ pc[t].all_videos = <<>>
             /\ fetch_channel(t, TRUE, NoInfo))
            => /\ last'.status = 200
               /\ ~last'.cached
               /\ last'.data.videos = <<>>
               /\ last'.data.count = 0
               /\ pc[t].key \in DOMAIN video_cache'
               /\ video_cache'[pc[t].key] =
                      [data |-> last'.data, time |-> now]
         ]_vars
    /\ [][\A m \in MaxResultsArgs, c \in ChannelArgs :
            (/\ IsInt(m)
             /\ Unexpired(channel_cache_key(int(m), c))
             /\ video_cache[channel_cache_key(int(m), c)].data.videos = <<>>)
            => \A t \in Threads :
                 get_blippi_videos(t, m, c)
                 => /\ last'.status = 200
                    /\ last'.cached
                    /\ last'.data.videos = <<>>
                    /\ pc'[t] = Idle
                    /\ video_cache' = video_cache
         ]_vars

\* Every lookup of a listing over both channels raised; the empty response
\* was stored, and a later request has been answered with it from the cache.
C37_Witness ==
    /\ last.op = "get_blippi_videos"
    /\ last.status = 200
    /\ last.cached
    /\ last.data.videos = <<>>
    /\ last.key = channel_cache_key(2, NoChannel)
    /\ Unexpired(last.key)
    /\ now > video_cache[last.key].time

----------------------------------------------------------------------------
(* The channels table across restarts, checked under SpecStartup.          *)

\* C38: a start of the server inserts the two default channels exactly when
\* the channels table is empty and leaves a table with rows as it is;
\* init_db run twice gives what it gives run once; and after a start the
\* table is not empty, also when every channel had been deleted.
C38_ConditionalSeeding ==
    /\ [][startup
          => /\ (channels = <<>>) => channels' = default_channels
             /\ (channels # <<>>) => channels' = channels
             /\ channels' # <<>>]_vars
    /\ [](/\ init_db(init_db(channels)) = init_db(channels)
          /\ init_db(channels) # <<>>
          /\ (init_db(channels) # channels) <=> (channels = <<>>))

\* Every channel had been deleted, the second default channel last; the
\* server started again and the two default channels are back.
C38_Witness ==
    /\ reply.op = "delete_channel"
    /\ reply.status = 200
    /\ reply.key = default_channels[2].channel_id
    /\ channels = default_channels

====
